---- MODULE Spec2Model ----
(***************************************************************************)
(* A model of the ray/scene intersection and recursive shading pipeline of *)
(* the ray tracer: Ray::intersect_world, hit, Ray::prepare_computations    *)
(* and World::color_at / shade_hit / reflected_color / refracted_color.    *)
(*                                                                         *)
(* Geometry is modelled on one axis (the y axis) in scaled integers: a     *)
(* point is its y coordinate, a vector is its y component, and the offset  *)
(* 1e-6 of over_point / under_point is one unit (EPSILON_OFFSET).  A       *)
(* shape is a plane (one point of the axis) or a sphere (an interval of    *)
(* the axis); its transform is a translation along the axis (and, for a    *)
(* sphere, a uniform scaling), plus a sideways translation `off` that puts *)
(* a sphere out of the ray's way.  Refractive indices are doubled (1.0 is  *)
(* 2, 1.5 is 3, 2.0 is 4, 2.5 is 5).  Colors are integers, black is 0.     *)
(* A shape's identity is its index in World.objects; its value is the      *)
(* triple (transform, origin, material) that PartialEq compares.           *)
(***************************************************************************)
EXTENDS Integers, Sequences, FiniteSets, TLC

VARIABLES
    world,      \* the World: objects and light
    ray,        \* the ray handed to the operation under study
    remaining,  \* the Option<i32> budget the caller hands to color_at
    xs,         \* a list of intersections
    out,        \* what the operation under study returned
    pc,         \* where the caller stands
    stack,      \* the call stack: one frame per color_at call in progress
    result      \* what the outermost color_at returned

vars == <<world, ray, remaining, xs, out, pc, stack, result>>

(***************************************************************************)
(* Bounds of the model.                                                    *)
(***************************************************************************)
\* longest list of intersections handed to hit
MaxLen == 4
\* largest explicit recursion budget a caller passes to color_at
MaxDepth == 2
\* deepest nesting of color_at frames the call stack holds before it is exhausted
MaxNest == 7
\* the longest world handed to intersect_world on its own
MaxShapes == 3
\* the longest hand-built list handed to prepare_computations
MaxXs == 3

(***************************************************************************)
(* Option<T>: None is the empty sequence, Some(x) the sequence <<x>>.      *)
(***************************************************************************)
None == <<>>

Some(x) == <<x>>

is_some(o) == Len(o) = 1

unwrap(o) == o[1]

\* Option::unwrap_or
unwrap_or(o, default) == IF is_some(o) THEN o[1] ELSE default

(***************************************************************************)
(* Intersection: a (t, object) pair; object is the index of the shape in   *)
(* World.objects (a reference to the shape).                               *)
(***************************************************************************)
Intersection(t, obj) == [t |-> t, object |-> obj, nan |-> FALSE]

\* an intersection whose t is NaN (a division by a NaN component)
NaNIntersection(obj) == [t |-> 0, object |-> obj, nan |-> TRUE]

\* partial_cmp(..).unwrap() in sort_by: the comparison of a NaN with anything
\* is None, and a sort of two or more elements compares every element
sort_panics(list) == Len(list) >= 2 /\ \E i \in 1..Len(list) : list[i].nan

\* insert_by_t that puts an element before the elements of equal t
RECURSIVE insert_by_t_before_equal(_, _)
insert_by_t_before_equal(sorted, x) ==
    IF sorted = <<>> THEN <<x>>
    ELSE IF Head(sorted).t < x.t
         THEN <<Head(sorted)>> \o insert_by_t_before_equal(Tail(sorted), x)
         ELSE <<x>> \o sorted

\* Vec::sort_by(|i1, i2| i1.t.partial_cmp(&i2.t)): a stable sort, so an
\* element is inserted after every element whose t is not greater.
RECURSIVE insert_by_t(_, _)
insert_by_t(sorted, x) ==
    IF sorted = <<>> THEN <<x>>
    ELSE IF Head(sorted).t <= x.t
         THEN <<Head(sorted)>> \o insert_by_t(Tail(sorted), x)
         ELSE <<x>> \o sorted

RECURSIVE sort_from(_, _)
sort_from(sorted, rest) ==
    IF rest = <<>> THEN sorted
    ELSE sort_from(insert_by_t(sorted, Head(rest)), Tail(rest))

\* sort_by_t that leaves the list as it is
sort_by_t_left_out(list) == list

sort_by_t(list) == sort_from(<<>>, list)

\* skip_while_negative that also skips t = 0
RECURSIVE skip_while_not_positive(_)
skip_while_not_positive(list) ==
    IF list = <<>> THEN <<>>
    ELSE IF ~Head(list).nan /\ Head(list).t <= 0 THEN skip_while_not_positive(Tail(list))
         ELSE list

\* intersections.iter().skip_while(|x| x.t < 0.0)
RECURSIVE skip_while_negative(_)
skip_while_negative(list) ==
    IF list = <<>> THEN <<>>
    ELSE IF ~Head(list).nan /\ Head(list).t < 0 THEN skip_while_negative(Tail(list))
         ELSE list

\* hit that takes the head of the list, whatever its t
hit_head(list) == IF list = <<>> THEN None ELSE Some(Head(list))

\* hit of visualisation/intersection.rs: .next() of the skipped iterator
hit(list) ==
    LET rest == skip_while_negative(list)
    IN  IF rest = <<>> THEN None ELSE Some(Head(rest))

\* hit of the legacy intersection.rs: sorts its argument in place first
hit_legacy(list) == hit(sort_by_t(list))

(***************************************************************************)
(* Point and Vector: the y coordinate, or NaN (what f64 arithmetic gives   *)
(* for 0.0 / 0.0, and for every operation on a NaN).                       *)
(***************************************************************************)
Tuple(y) == [nan |-> FALSE, y |-> y]

NaN == [nan |-> TRUE, y |-> 0]

\* Vector::neg, Point + Vector, Point - Vector, Vector * f64
neg(v) == IF v.nan THEN NaN ELSE Tuple(0 - v.y)

add(p, v) == IF p.nan \/ v.nan THEN NaN ELSE Tuple(p.y + v.y)

sub(p, v) == IF p.nan \/ v.nan THEN NaN ELSE Tuple(p.y - v.y)

mul(v, k) == IF v.nan THEN NaN ELSE Tuple(v.y * k)

sign(n) == IF n > 0 THEN 1 ELSE IF n < 0 THEN 0 - 1 ELSE 0

\* Vector::normalise: self / self.magnitude(); the zero vector gives 0.0/0.0.
\* Only the direction is kept: a normalised vector on the axis is -1 or 1.
normalise(v) == IF v.nan \/ v.y = 0 THEN NaN ELSE Tuple(sign(v.y))

\* Vector::dot, as the comparisons made on it: every comparison with NaN is false
dot_lt_zero(a, b) == ~a.nan /\ ~b.nan /\ a.y * b.y < 0

dot_ge_zero(a, b) == ~a.nan /\ ~b.nan /\ a.y * b.y >= 0

dot_gt_zero(a, b) == ~a.nan /\ ~b.nan /\ a.y * b.y > 0

\* Vector::reflect: self - normal * 2.0 * self.dot(&normal)
reflect(v, normal) ==
    IF v.nan \/ normal.nan THEN NaN
    ELSE Tuple(v.y - normal.y * 2 * (v.y * normal.y))

(***************************************************************************)
(* Ray: origin, direction, and s2 = 4 * (1 - cos^2) of the angle between   *)
(* the ray and the axis (0: along the axis, 3: at 60 degrees), which the   *)
(* one-axis geometry does not otherwise keep.                              *)
(***************************************************************************)
Ray(origin, direction, s2) == [origin |-> origin, direction |-> direction, s2 |-> s2]

\* Ray::position
position(r, t) == add(r.origin, mul(r.direction, t))

(***************************************************************************)
(* Material, Shape and World.                                              *)
(***************************************************************************)
Material(reflective, transparency, refractive_index) ==
    [pattern |-> None, color |-> 1, ambient |-> 1, diffuse |-> 1, specular |-> 1,
     reflective |-> reflective, transparency |-> transparency,
     refractive_index |-> refractive_index]

\* translation along the axis by ty, uniform scaling by scale, and (off) a
\* sideways translation that takes a sphere out of the axis
Transform(ty, scale, off) == [ty |-> ty, scale |-> scale, off |-> off]

(***************************************************************************)
(* Matrix4D, for the matrices scene construction builds from scaling and   *)
(* translation: the map p |-> (num * p + t) / den on each of the three     *)
(* axes.  scaling(s, s, s) is Matrix(s, 1, <<0, 0, 0>>).                   *)
(***************************************************************************)
Matrix(num, den, t) == [num |-> num, den |-> den, t |-> t]

\* the points <<x, y, z>> of pattern space: a coordinate 1.0 is PatternUnit
\* units, so that halves and quarters are integers
PatternUnit == 4

\* the point y of the axis as a point <<x, y, z>>
point3(p) == <<0, p.y * PatternUnit, 0>>

\* the Matrix4D of a shape's transform: the shape is scaled about the axis
\* and moved along it.  The points <<x, y, z>> a Matrix4D is applied to are
\* in units of 1 / PatternUnit.
matrix_of(transform) == Matrix(transform.scale, 1, <<0, transform.ty * PatternUnit, 0>>)

\* Matrix4D::det, multiplied by den^3
det(m) == m.num * m.num * m.num

\* Matrix4D::is_invertible
is_invertible(m) == det(m) # 0

\* Matrix4D::inverse
inverse(m) ==
    IF ~is_invertible(m) THEN None
    ELSE Some(Matrix(m.den, m.num, [k \in 1..3 |-> 0 - m.t[k]]))

\* Matrix4D * Point, on points <<x, y, z>>
mul_point(m, p) == [k \in 1..3 |-> (m.num * p[k] + m.t[k]) \div m.den]

Sphere(transform, material) ==
    [kind |-> "sphere", origin |-> 0, transform |-> transform, material |-> material,
     minimum |-> 0, maximum |-> 0, closed |-> FALSE]

Plane(transform, material) ==
    [kind |-> "plane", origin |-> 0, transform |-> transform, material |-> material,
     minimum |-> 0, maximum |-> 0, closed |-> FALSE]

Cone(transform, material, maximum, minimum, closed) ==
    [kind |-> "cone", origin |-> 0, transform |-> transform, material |-> material,
     minimum |-> minimum, maximum |-> maximum, closed |-> closed]

\* impl PartialEq for dyn ConcreteShape: transform, origin and material
shape_eq(a, b) ==
    /\ a.transform = b.transform
    /\ a.origin = b.origin
    /\ a.material = b.material

World(objects, light) == [objects |-> objects, light |-> light]

\* #[derive(PartialEq)] of Intersection: t, and the objects compared with
\* the PartialEq of dyn ConcreteShape
intersection_eq(w, a, b) ==
    ~a.nan /\ ~b.nan /\ a.t = b.t /\ shape_eq(w.objects[a.object], w.objects[b.object])

(***************************************************************************)
(* Result<T, String>.                                                      *)
(***************************************************************************)
Ok(v) == [ok |-> TRUE, val |-> v, err |-> "", panic |-> FALSE]

Err(e) == [ok |-> FALSE, val |-> <<>>, err |-> e, panic |-> FALSE]

\* the panic message of Option::unwrap on None
UnwrapNone == "called Option::unwrap() on a None value"

\* no Result at all: the thread panics with the message e
Panic(e) == [ok |-> FALSE, val |-> <<>>, err |-> e, panic |-> TRUE]

(***************************************************************************)
(* Shapes: local_intersect and local_normal_at of each kind, reached       *)
(* through ConcreteShape::intersects and ConcreteShape::normal_at.  The    *)
(* ray handed to local_intersect is the ray in object space: with o the    *)
(* ray's origin less the shape's translation and s the shape's scaling,    *)
(* its origin is o/s and its direction d/s.  The quadratic's coefficients  *)
(* are kept multiplied by s*s, which leaves its roots unchanged.           *)
(***************************************************************************)
abs(n) == IF n < 0 THEN 0 - n ELSE n

\* f64::sqrt on the perfect squares the one-axis geometry produces
sqrt(n) == CHOOSE k \in 0..n : k * k <= n /\ (k + 1) * (k + 1) > n

\* 1 / f64::EPSILON in the model's scale: in the object space of a sphere
\* scaled by 16 or more, a unit direction has a squared length within
\* EPSILON of zero
EpsilonInverse == 256

\* a.relative_eq(&0.0, f64::EPSILON, f64::EPSILON), for the a of object
\* space, which is a / (s * s)
close_to_zero(a, s) == a * EpsilonInverse <= s * s

\* Sphere::local_intersect
sphere_local_intersect(self, shape, r) ==
    LET s == shape.transform.scale
        o == r.origin.y - shape.transform.ty
        d == r.direction.y
        lateral == IF shape.transform.off THEN s + 1 ELSE 0
        a == d * d
        b == 2 * d * o
        c == o * o + lateral * lateral - s * s
        discriminant == b * b - 4 * a * c
    IN  IF r.direction.nan THEN Ok(<<>>)
        ELSE IF close_to_zero(a, s) THEN Err("Direction is zero or close to zero")
        ELSE IF r.origin.nan THEN Ok(<<>>)
        ELSE IF discriminant >= 0
             THEN Ok(<<Intersection(((0 - b) - sqrt(discriminant)) \div (2 * a), self),
                       Intersection(((0 - b) + sqrt(discriminant)) \div (2 * a), self)>>)
             ELSE Ok(<<>>)

\* Plane::local_intersect
plane_local_intersect(self, shape, r) ==
    LET o == r.origin.y - shape.transform.ty
        d == r.direction.y
    IN  IF r.direction.nan THEN Ok(<<NaNIntersection(self)>>)
        ELSE IF d = 0 THEN Ok(<<>>)
        ELSE IF r.origin.nan THEN Ok(<<NaNIntersection(self)>>)
        ELSE Ok(<<Intersection((0 - o) \div d, self)>>)

\* Cone::local_intersect for a ray on the cone's axis (x = z = 0)
cone_local_intersect(self, shape, r) ==
    LET s == shape.transform.scale
        o == r.origin.y - shape.transform.ty
        d == r.direction.y
        a == 0 - d * d
        b == 0 - 2 * o * d
        c == 0 - o * o
        discriminant == b * b - 4 * a * c
        t0 == ((0 - b) - sqrt(discriminant)) \div (2 * a)
        t1 == ((0 - b) + sqrt(discriminant)) \div (2 * a)
        lo == IF t0 > t1 THEN t1 ELSE t0
        hi == IF t0 > t1 THEN t0 ELSE t1
        side(t) == IF shape.minimum * s < o + t * d /\ o + t * d < shape.maximum * s
                   THEN <<Intersection(t, self)>> ELSE <<>>
        sides == IF a # 0
                 THEN (IF discriminant < 0 THEN <<>> ELSE side(lo) \o side(hi))
                 ELSE (IF b # 0 THEN <<Intersection((0 - c) \div (2 * b), self)>> ELSE <<>>)
        \* check_cap: x^2 + z^2 = 0 <= |y| on the axis
        caps == IF shape.closed /\ d # 0
                THEN <<Intersection((shape.minimum * s - o) \div d, self),
                       Intersection((shape.maximum * s - o) \div d, self)>>
                ELSE <<>>
    IN  IF r.origin.nan \/ r.direction.nan THEN Ok(<<>>)
        ELSE IF a # 0 /\ discriminant < 0 THEN Ok(<<>>) ELSE Ok(sides \o caps)

\* ConcreteShape::intersects: the ray is taken to object space, then local_intersect
intersects(w, self, r) ==
    LET shape == w.objects[self]
    IN  IF ~is_some(inverse(matrix_of(shape.transform)))
        THEN Panic("Cannot apply object transformation")
        ELSE CASE shape.kind = "sphere" -> sphere_local_intersect(self, shape, r)
               [] shape.kind = "plane" -> plane_local_intersect(self, shape, r)
               [] OTHER -> cone_local_intersect(self, shape, r)

\* ConcreteShape::normal_at: local_normal_at of the point in object space,
\* taken back by the inverse transpose and normalised
normal_at(shape, point) ==
    LET y == point.y - shape.transform.ty
        s == shape.transform.scale
    IN  IF point.nan THEN NaN
        ELSE CASE shape.kind = "sphere" ->
                   IF shape.transform.off THEN Tuple(sign(y)) ELSE normalise(Tuple(y))
               [] shape.kind = "plane" -> normalise(Tuple(1))
               [] OTHER ->
                   IF y >= shape.maximum * s THEN normalise(Tuple(1))
                   ELSE IF y <= shape.minimum * s THEN normalise(Tuple(0 - 1))
                   ELSE normalise(Tuple(0))

\* normal_at_call that does not look at the inverse
normal_at_call_unchecked(shape, point) == Ok(normal_at(shape, point))

\* ConcreteShape::normal_at as it is called: inverse().unwrap() comes first
normal_at_call(shape, point) ==
    IF ~is_some(inverse(matrix_of(shape.transform))) THEN Panic(UnwrapNone)
    ELSE Ok(normal_at(shape, point))

(***************************************************************************)
(* Ray::intersect_world                                                    *)
(***************************************************************************)
\* gather that passes over a shape whose intersects fails
RECURSIVE gather_past_errors(_, _, _, _)
gather_past_errors(w, r, next, acc) ==
    IF next > Len(w.objects) THEN Ok(acc)
    ELSE LET got == intersects(w, next, r)
         IN  gather_past_errors(w, r, next + 1, acc \o got.val)

\* the loop over world.objects: result.append(obj.intersects(self)?)
RECURSIVE gather(_, _, _, _)

\* the `?` on what a shape's intersects gave: out of the loop on a failure,
\* appended and on to the next shape otherwise
gather_append(w, r, next, acc, got) ==
    IF got.ok THEN gather(w, r, next + 1, acc \o got.val) ELSE got

gather(w, r, next, acc) ==
    IF next > Len(w.objects) THEN Ok(acc)
    ELSE gather_append(w, r, next, acc, intersects(w, next, r))

intersect_world_sort(gathered) ==
    IF ~gathered.ok THEN gathered
    ELSE IF sort_panics(gathered.val) THEN Panic(UnwrapNone)
    ELSE Ok(sort_by_t(gathered.val))

intersect_world(r, w) == intersect_world_sort(gather(w, r, 1, <<>>))

(***************************************************************************)
(* Ray::prepare_computations                                               *)
(***************************************************************************)
\* the refractive index 1.0 (of the doubled scale) n1 and n2 start from
Vacuum == 2

\* the offset 1e-6 of over_point and under_point, one unit of the axis
EPSILON_OFFSET == 1

\* container.contains(&i.object): PartialEq of the shapes referred to
contains(w, container, obj) ==
    \E k \in 1..Len(container) : shape_eq(w.objects[container[k]], w.objects[obj])

\* container.iter().position(|x| *x == i.object).unwrap()
position_of(w, container, obj) ==
    CHOOSE k \in 1..Len(container) :
        /\ shape_eq(w.objects[container[k]], w.objects[obj])
        /\ \A j \in 1..(k - 1) : ~shape_eq(w.objects[container[j]], w.objects[obj])

\* Vec::remove(index)
remove(container, index) ==
    SubSeq(container, 1, index - 1) \o SubSeq(container, index + 1, Len(container))

\* container.last().unwrap().material().refractive_index, or 1.0 when it is empty
top_index(w, container) ==
    IF Len(container) = 0 THEN Vacuum
    ELSE w.objects[container[Len(container)]].material.refractive_index

\* the container after the intersection i is processed
update_container(w, container, i) ==
    IF contains(w, container, i.object)
    THEN remove(container, position_of(w, container, i.object))
    ELSE Append(container, i.object)

\* for i in intersections { ... }: n is the pair <<n1, n2>>
RECURSIVE walk(_, _, _, _, _)
walk(w, intersection, rest, container, n) ==
    IF rest = <<>> THEN n
    ELSE LET i == Head(rest)
             found == intersection_eq(w, intersection, i)
             n1 == IF found THEN top_index(w, container) ELSE n[1]
             after == update_container(w, container, i)
         IN  IF found THEN <<n1, top_index(w, after)>>
             ELSE walk(w, intersection, Tail(rest), after, <<n1, n[2]>>)

\* list is Option<&Vec<Intersection>>
prepare_computations(w, r, intersection, list) ==
    LET point == IF intersection.nan THEN NaN ELSE position(r, intersection.t)
        shape_normal == normal_at(w.objects[intersection.object], point)
        eye == neg(r.direction)
        inside == dot_lt_zero(shape_normal, eye)
        normal == IF inside THEN neg(shape_normal) ELSE shape_normal
        n == IF is_some(list)
             THEN walk(w, intersection, unwrap(list), <<>>, <<Vacuum, Vacuum>>)
             ELSE <<Vacuum, w.objects[intersection.object].material.refractive_index>>
    IN  [t |-> intersection.t,
         object |-> intersection.object,
         point |-> point,
         over_point |-> add(point, mul(normal, EPSILON_OFFSET)),
         under_point |-> sub(point, mul(normal, EPSILON_OFFSET)),
         eye |-> eye,
         normal |-> normal,
         reflection_vector |-> reflect(r.direction, normal),
         inside |-> inside,
         n1 |-> n[1],
         n2 |-> n[2],
         s2 |-> r.s2]

(***************************************************************************)
(* World: is_shadowed, Material::lighting and schlick                      *)
(***************************************************************************)
\* const REFLECTION_RECURSION_THRESHOLD: i32
REFLECTION_RECURSION_THRESHOLD == 3

(***************************************************************************)
(* ColorPattern, on the points <<x, y, z>>.                                *)
(***************************************************************************)
ColorPattern(kind, a, b, transform) ==
    [kind |-> kind, a |-> a, b |-> b, transform |-> transform]

\* f64::floor of a coordinate, in whole units
floor(x) == x \div PatternUnit

\* `as i64 % 2`: the remainder has the sign of the dividend
rem2(n) == IF n >= 0 THEN n % 2 ELSE 0 - ((0 - n) % 2)

\* Pattern::pattern_at of the five variants; the test pattern's color is the
\* point itself, the others give one of their colors a and b
pattern_at(pattern, p) ==
    CASE pattern.kind = "test" -> <<p[1], p[2], p[3]>>
      [] pattern.kind = "stripe" -> IF rem2(floor(p[1])) = 0 THEN pattern.a ELSE pattern.b
      [] pattern.kind = "gradient" ->
            pattern.a + ((pattern.b - pattern.a) * (p[1] - floor(p[1]) * PatternUnit))
                            \div PatternUnit
      [] pattern.kind = "ring" ->
            IF rem2(floor(sqrt(p[1] * p[1] + p[3] * p[3]))) = 0 THEN pattern.a ELSE pattern.b
      [] OTHER -> IF rem2(floor(p[1]) + floor(p[2]) + floor(p[3])) = 0
                  THEN pattern.a ELSE pattern.b

\* pattern_at_object that applies the pattern's inverse before the object's
pattern_at_object_pattern_first(pattern, object, point) ==
    LET object_inverse == inverse(matrix_of(object.transform))
        pattern_inverse == inverse(pattern.transform)
    IN  IF ~is_some(object_inverse) THEN Panic("Could not invert object transform")
        ELSE IF ~is_some(pattern_inverse) THEN Panic("Could not invert pattern transform")
        ELSE Ok(pattern_at(pattern, mul_point(unwrap(object_inverse),
                                              mul_point(unwrap(pattern_inverse), point))))

\* ColorPattern::pattern_at_object
pattern_at_object(pattern, object, point) ==
    LET object_inverse == inverse(matrix_of(object.transform))
        pattern_inverse == inverse(pattern.transform)
    IN  IF ~is_some(object_inverse) THEN Panic("Could not invert object transform")
        ELSE IF ~is_some(pattern_inverse) THEN Panic("Could not invert pattern transform")
        ELSE Ok(pattern_at(pattern, mul_point(unwrap(pattern_inverse),
                                              mul_point(unwrap(object_inverse), point))))

\* PointLight: position, and the intensity 1 (white)
PointLight(at) == [position |-> at, intensity |-> 1]

black == 0

\* World::is_shadowed; h.t < distance is false for a NaN
\* the match on hit(&intersections): h.t < distance, v being the vector
\* from the point to the light
is_shadowed_hit(v, h) ==
    IF is_some(h) THEN Ok(~unwrap(h).nan /\ ~v.nan /\ unwrap(h).t < abs(v.y))
    ELSE Ok(FALSE)

\* is_shadowed from the `?` on intersect_world: the list is sorted once more
is_shadowed_among(v, intersections) ==
    IF ~intersections.ok THEN intersections
    ELSE IF sort_panics(intersections.val) THEN Panic(UnwrapNone)
    ELSE is_shadowed_hit(v, hit(sort_by_t(intersections.val)))

\* is_shadowed from the ray it casts along v
is_shadowed_along(w, point, v) ==
    is_shadowed_among(v, intersect_world(Ray(point, normalise(v), 0), w))

is_shadowed(w, point) == is_shadowed_along(w, point, sub(w.light.position, point))

\* the base color: the pattern's sample, or the flat color
sampled_color(material, object, point) ==
    IF is_some(material.pattern)
    THEN pattern_at_object(unwrap(material.pattern), object, point3(point))
    ELSE Ok(material.color)

\* lighting_terms that leaves the specular term out of the sum
lighting_terms_without_specular(material, light, point, eye, normal, in_shadow, color) ==
    LET effective_color == color * light.intensity
        light_dir == normalise(sub(light.position, point))
        ambient == effective_color * material.ambient
        lit == dot_ge_zero(light_dir, normal) /\ ~in_shadow
        diffuse == IF lit THEN effective_color * material.diffuse * (light_dir.y * normal.y)
                   ELSE black
    IN  ambient + diffuse

\* ambient + diffuse + specular on the base color
lighting_terms(material, light, point, eye, normal, in_shadow, color) ==
    LET effective_color == color * light.intensity
        light_dir == normalise(sub(light.position, point))
        ambient == effective_color * material.ambient
        lit == dot_ge_zero(light_dir, normal) /\ ~in_shadow
        diffuse == IF lit THEN effective_color * material.diffuse * (light_dir.y * normal.y)
                   ELSE black
        reflect_dir == neg(reflect(light_dir, normal))
        specular == IF lit /\ dot_gt_zero(reflect_dir, eye)
                    THEN light.intensity * material.specular
                    ELSE black
    IN  ambient + diffuse + specular

\* lighting once the base color is there: a panic of pattern_at_object is a
\* panic of lighting
lighting_on(material, light, point, eye, normal, in_shadow, base) ==
    IF ~base.ok THEN base
    ELSE Ok(lighting_terms(material, light, point, eye, normal, in_shadow, base.val))

\* Material::lighting
lighting(material, object, light, point, eye, normal, in_shadow) ==
    lighting_on(material, light, point, eye, normal, in_shadow,
                sampled_color(material, object, point))

\* sin2_t > 1.0 with sin2_t = (n1 / n2)^2 * (1 - cos_i^2), and s2 = 4 * (1 - cos_i^2)
total_internal_reflection(comps) ==
    comps.n1 * comps.n1 * comps.s2 > 4 * comps.n2 * comps.n2

\* IntersectionComputations::schlick, as the fraction <<numerator, denominator>>.
\* cos is 1 on the axis and 1/2 at 60 degrees; a ray at 60 degrees that leaves
\* the denser medium is totally reflected for every pair of indices of the
\* model, so cos is recomputed only on the axis, where it stays 1.
schlick(comps) ==
    LET sum == comps.n1 + comps.n2
        diff == comps.n1 - comps.n2
        one_minus_cos_5 == IF comps.s2 = 0 THEN 0 ELSE 1
    IN  IF comps.n1 > comps.n2 /\ total_internal_reflection(comps) THEN <<1, 1>>
        ELSE <<32 * diff * diff + one_minus_cos_5 * (sum * sum - diff * diff),
               32 * sum * sum>>

(***************************************************************************)
(* World::color_at, shade_hit, reflected_color and refracted_color as a    *)
(* call stack.  A frame is one color_at call: its ray and budget, where    *)
(* it stands, and the locals of the shade_hit it runs.                     *)
(***************************************************************************)
\* Frame whose budget is used up once a pixel has been written: a budget
\* shared by the calls
Frame_with_shared_budget(r, budget) ==
    [ray |-> r,
     remaining |-> IF is_some(out) /\ unwrap(out).written # <<>> THEN Some(0) ELSE budget,
     pc |-> "color_at", comps |-> None,
     surface |-> black, reflected |-> black, refracted |-> black]

Frame(r, budget) ==
    [ray |-> r, remaining |-> budget, pc |-> "color_at", comps |-> None,
     surface |-> black, reflected |-> black, refracted |-> black]

top == stack[Len(stack)]

callers == SubSeq(stack, 1, Len(stack) - 1)

\* budget_of with a default of five
budget_of_default_five(budget) == unwrap_or(budget, REFLECTION_RECURSION_THRESHOLD + 2)

\* remaining.unwrap_or(REFLECTION_RECURSION_THRESHOLD)
budget_of(budget) == unwrap_or(budget, REFLECTION_RECURSION_THRESHOLD)

material_of(w, comps) == w.objects[comps.object].material

\* reflected_color_begin without the test of the budget
reflected_color_begin_no_depth_test(w, comps, budget) ==
    IF w.objects[comps.object].material.reflective = 0 THEN [call |-> FALSE, color |-> black]
    ELSE [call |-> TRUE,
          ray |-> Ray(comps.over_point, comps.reflection_vector, comps.s2),
          remaining |-> Some(unwrap_or(budget, REFLECTION_RECURSION_THRESHOLD) - 1)]

\* reflected_color_begin that casts its ray from the hit point
reflected_color_begin_from_point(w, comps, budget) ==
    IF unwrap_or(budget, REFLECTION_RECURSION_THRESHOLD) = 0 THEN [call |-> FALSE, color |-> black]
    ELSE IF w.objects[comps.object].material.reflective = 0 THEN [call |-> FALSE, color |-> black]
    ELSE [call |-> TRUE,
          ray |-> Ray(comps.point, comps.reflection_vector, comps.s2),
          remaining |-> Some(unwrap_or(budget, REFLECTION_RECURSION_THRESHOLD) - 1)]

\* reflected_color up to its call of color_at: the color it returns at once,
\* or the ray and budget of the call
reflected_color_begin(w, comps, budget) ==
    IF budget_of(budget) = 0 THEN [call |-> FALSE, color |-> black]
    ELSE IF material_of(w, comps).reflective = 0 THEN [call |-> FALSE, color |-> black]
    ELSE [call |-> TRUE,
          ray |-> Ray(comps.over_point, comps.reflection_vector, comps.s2),
          remaining |-> Some(budget_of(budget) - 1)]

\* refracted_color_begin without the test of the material's transparency
refracted_color_begin_no_material_test(w, comps, budget) ==
    IF unwrap_or(budget, REFLECTION_RECURSION_THRESHOLD) = 0 THEN [call |-> FALSE, color |-> black]
    ELSE IF total_internal_reflection(comps) THEN [call |-> FALSE, color |-> black]
    ELSE [call |-> TRUE,
          ray |-> Ray(comps.under_point, neg(comps.eye), comps.s2),
          remaining |-> Some(unwrap_or(budget, REFLECTION_RECURSION_THRESHOLD) - 1)]

\* refracted_color_begin without the test of sin2_t
refracted_color_begin_no_sin2_t_test(w, comps, budget) ==
    IF unwrap_or(budget, REFLECTION_RECURSION_THRESHOLD) = 0 THEN [call |-> FALSE, color |-> black]
    ELSE IF w.objects[comps.object].material.transparency = 0
    THEN [call |-> FALSE, color |-> black]
    ELSE [call |-> TRUE,
          ray |-> Ray(comps.under_point, neg(comps.eye), comps.s2),
          remaining |-> Some(unwrap_or(budget, REFLECTION_RECURSION_THRESHOLD) - 1)]

\* refracted_color up to its call of color_at.  direction is
\* normal * (ratio * cos_i - cos_t) - eye * ratio, which on the axis points
\* against the eye vector; the refracted ray keeps the incoming ray's s2.
refracted_color_begin(w, comps, budget) ==
    IF budget_of(budget) = 0 THEN [call |-> FALSE, color |-> black]
    ELSE IF material_of(w, comps).transparency = 0 THEN [call |-> FALSE, color |-> black]
    ELSE IF total_internal_reflection(comps) THEN [call |-> FALSE, color |-> black]
    ELSE [call |-> TRUE,
          ray |-> Ray(comps.under_point, neg(comps.eye), comps.s2),
          remaining |-> Some(budget_of(budget) - 1)]

\* shade_hit_color that blends as soon as one of the two coefficients is positive
shade_hit_color_either(material, comps, surface, reflected_color, refracted_color) ==
    IF material.reflective > 0 \/ material.transparency > 0
    THEN LET reflectance == schlick(comps)
         IN  surface + (reflected_color * reflectance[1]
                        + refracted_color * (reflectance[2] - reflectance[1]))
                       \div reflectance[2]
    ELSE surface + reflected_color + refracted_color

\* the last statement of shade_hit
shade_hit_color(material, comps, surface, reflected_color, refracted_color) ==
    IF material.reflective > 0 /\ material.transparency > 0
    THEN LET reflectance == schlick(comps)
         IN  surface + (reflected_color * reflectance[1]
                        + refracted_color * (reflectance[2] - reflectance[1]))
                       \div reflectance[2]
    ELSE surface + reflected_color + refracted_color

\* the caller's frame when the color_at it called returns color:
\* color * material.reflective, or color * material.transparency
resume(w, frame, color) ==
    LET material == material_of(w, unwrap(frame.comps))
    IN  IF frame.pc = "reflected_color_call"
        THEN [frame EXCEPT !.reflected = color * material.reflective,
                           !.pc = "refracted_color"]
        ELSE [frame EXCEPT !.refracted = color * material.transparency,
                           !.pc = "shade_hit"]

\* color_at returns Ok(color) to its caller
return_ok(color) ==
    IF Len(stack) = 1
    THEN /\ stack' = <<>>
         /\ result' = Some(Ok(color))
         /\ pc' = "done"
    ELSE /\ stack' = [callers EXCEPT ![Len(callers)] = resume(world, @, color)]
         /\ UNCHANGED <<result, pc>>

\* return_err that returns black in place of the error
return_err_as_black(e) == return_ok(black)

\* color_at returns Err(e): the outermost caller gets it; reflected_color and
\* refracted_color panic on it (expect)
return_err(e) ==
    IF Len(stack) = 1
    THEN /\ stack' = <<>>
         /\ result' = Some(Err(e))
         /\ pc' = "done"
    ELSE /\ pc' = "panic"
         /\ UNCHANGED <<stack, result>>

\* a caller calls world.color_at(&r, budget)
call_color_at(r, budget) ==
    /\ pc = "idle"
    /\ ray' = r
    /\ remaining' = budget
    /\ stack' = <<Frame(r, budget)>>
    /\ pc' = "running"
    /\ UNCHANGED <<world, xs, out, result>>

\* shade_hit with its surface color: on to reflected_color
shade_hit_surface(comps, surface) ==
    IF ~surface.ok THEN pc' = "panic" /\ UNCHANGED <<stack, result>>
    ELSE /\ stack' = [stack EXCEPT ![Len(stack)] =
                        [@ EXCEPT !.comps = Some(comps), !.surface = surface.val,
                                  !.pc = "reflected_color"]]
         /\ UNCHANGED <<result, pc>>

\* shade_hit after is_shadowed(comps.over_point).unwrap(): lighting
shade_hit_lit(comps, in_shadow) ==
    IF ~in_shadow.ok THEN pc' = "panic" /\ UNCHANGED <<stack, result>>
    ELSE shade_hit_surface(comps,
                           lighting(material_of(world, comps), world.objects[comps.object],
                                    world.light, comps.over_point, comps.eye, comps.normal,
                                    in_shadow.val))

\* shade_hit(&comps, remaining), up to its call of reflected_color
shade_hit_begin(comps) == shade_hit_lit(comps, is_shadowed(world, comps.over_point))

\* the match on hit(&xs)
color_at_hit(list, hits) ==
    IF ~is_some(hits) THEN return_ok(black)
    ELSE shade_hit_begin(prepare_computations(world, top.ray, unwrap(hits), Some(list)))

\* color_at from the `?` on intersect_world
color_at_found(found) ==
    IF found.panic THEN pc' = "panic" /\ UNCHANGED <<stack, result>>
    ELSE IF ~found.ok THEN return_err(found.err)
    ELSE color_at_hit(found.val, hit(found.val))

\* color_at, and the shade_hit it calls up to shade_hit's call of reflected_color
color_at ==
    /\ pc = "running"
    /\ top.pc = "color_at"
    /\ color_at_found(intersect_world(top.ray, world))
    /\ UNCHANGED <<world, ray, remaining, xs, out>>

\* the frame's secondary call: pushed, unless the call stack is exhausted
secondary_call(begin, waiting) ==
    IF Len(stack) >= MaxNest
    THEN pc' = "stack_overflow" /\ UNCHANGED stack
    ELSE /\ stack' = Append([stack EXCEPT ![Len(stack)] = [@ EXCEPT !.pc = waiting]],
                            Frame(begin.ray, begin.remaining))
         /\ UNCHANGED pc

\* shade_hit calls self.reflected_color(comps, remaining)
reflected_color ==
    /\ pc = "running"
    /\ top.pc = "reflected_color"
    /\ LET begin == reflected_color_begin(world, unwrap(top.comps), top.remaining)
       IN  IF begin.call THEN secondary_call(begin, "reflected_color_call")
           ELSE /\ stack' = [stack EXCEPT ![Len(stack)] =
                               [@ EXCEPT !.reflected = begin.color, !.pc = "refracted_color"]]
                /\ UNCHANGED pc
    /\ UNCHANGED <<world, ray, remaining, xs, out, result>>

\* shade_hit calls self.refracted_color(comps, remaining)
refracted_color ==
    /\ pc = "running"
    /\ top.pc = "refracted_color"
    /\ LET begin == refracted_color_begin(world, unwrap(top.comps), top.remaining)
       IN  IF begin.call THEN secondary_call(begin, "refracted_color_call")
           ELSE /\ stack' = [stack EXCEPT ![Len(stack)] =
                               [@ EXCEPT !.refracted = begin.color, !.pc = "shade_hit"]]
                /\ UNCHANGED pc
    /\ UNCHANGED <<world, ray, remaining, xs, out, result>>

\* shade_hit blends the three colors and color_at returns Ok(color)
shade_hit ==
    /\ pc = "running"
    /\ top.pc = "shade_hit"
    /\ return_ok(shade_hit_color(material_of(world, unwrap(top.comps)), unwrap(top.comps),
                                 top.surface, top.reflected, top.refracted))
    /\ UNCHANGED <<world, ray, remaining, xs, out>>

(***************************************************************************)
(* The worlds, rays and budgets color_at is called with.  Surfaces lie on  *)
(* even coordinates and lights on even coordinates off the surfaces, so    *)
(* no over_point (a surface moved by EPSILON_OFFSET) is a light.           *)
(***************************************************************************)
Materials == {Material(rf, tr, ri) : rf \in {0, 1}, tr \in {0, 1}, ri \in {2, 3}}

\* two facing planes with the light between them
FacingPlanes(m1, m2) ==
    World(<<Plane(Transform(0, 1, FALSE), m1), Plane(Transform(4, 1, FALSE), m2)>>,
          PointLight(Tuple(2)))

\* a sphere in front of a plane, the light before both
SphereAndPlane(m1, m2) ==
    World(<<Sphere(Transform(2, 2, FALSE), m1), Plane(Transform(8, 1, FALSE), m2)>>,
          PointLight(Tuple(0 - 2)))

\* a plane, and a sphere beside the axis that no ray of the axis meets
PlaneAndSphereAside(m1, m2) ==
    World(<<Plane(Transform(4, 1, FALSE), m1), Sphere(Transform(2, 2, TRUE), m2)>>,
          PointLight(Tuple(2)))

Scenes ==
    {World(<<>>, PointLight(Tuple(2)))}
    \cup {FacingPlanes(m1, m2) : m1 \in Materials, m2 \in Materials}
    \cup {SphereAndPlane(m1, m2) : m1 \in Materials, m2 \in Materials}
    \cup {PlaneAndSphereAside(m1, m2) : m1 \in Materials, m2 \in Materials}

PrimaryRays == {Ray(Tuple(o), Tuple(d), s2) : o \in {0 - 3, 2}, d \in {0 - 1, 0, 1}, s2 \in {0, 3}}

Budgets == {None} \cup {Some(d) : d \in (0 - 1)..MaxDepth}

NoRay == Ray(Tuple(0), Tuple(0), 0)

Init ==
    /\ world \in Scenes
    /\ ray = NoRay
    /\ remaining = None
    /\ xs = <<>>
    /\ out = None
    /\ pc = "idle"
    /\ stack = <<>>
    /\ result = None

Next ==
    \/ \E r \in PrimaryRays, budget \in Budgets : call_color_at(r, budget)
    \/ color_at
    \/ reflected_color
    \/ refracted_color
    \/ shade_hit

Spec == Init /\ [][Next]_vars

(***************************************************************************)
(* The recursion of color_at: claims C1 to C4.                             *)
(***************************************************************************)
\* the budget the outermost call runs with, and the frames' budgets
initial_budget == budget_of(remaining)

frame_budget(k) == budget_of(stack[k].remaining)

top_material == material_of(world, unwrap(top.comps))

\* C1: for every world, ray and initial budget d the recursion of color_at
\* terminates: the budget strictly decreases from each frame to the frame it
\* calls, a frame whose budget has reached 0 calls no further color_at, the
\* call stack is never exhausted, and the nesting of color_at frames never
\* exceeds d + 1 (one frame, the outermost call, for a negative d).
C1_RecursionBounded ==
    /\ pc # "stack_overflow"
    /\ stack # <<>> =>
        /\ Len(stack) <= (IF initial_budget < 0 THEN 0 ELSE initial_budget) + 1
        /\ \A k \in 1..(Len(stack) - 1) :
            /\ frame_budget(k + 1) < frame_budget(k)
            /\ frame_budget(k) # 0

\* C2: with a remaining budget of 0, reflected_color and refracted_color
\* return black and call no color_at (the stack does not grow), whatever the
\* material and the computations.
C2_DepthZeroReturnsBlack ==
    [][(/\ pc = "running"
        /\ top.pc \in {"reflected_color", "refracted_color"}
        /\ frame_budget(Len(stack)) = 0)
       => (/\ pc' = "running"
           /\ Len(stack') = Len(stack)
           /\ top.pc = "reflected_color"
                => top'.reflected = black /\ top'.pc = "refracted_color"
           /\ top.pc = "refracted_color"
                => top'.refracted = black /\ top'.pc = "shade_hit")]_vars

\* C2's case: both have returned black at budget 0 for a material with
\* reflective = 1 and transparency = 1 whose refraction is not total
C2_Witness ==
    /\ pc = "running"
    /\ top.pc = "shade_hit"
    /\ frame_budget(Len(stack)) = 0
    /\ top_material.reflective = 1
    /\ top_material.transparency = 1
    /\ ~total_internal_reflection(unwrap(top.comps))
    /\ top.reflected = black
    /\ top.refracted = black

\* C3: with a budget greater than 0, reflected_color of a material with
\* reflective = 0 and refracted_color of a material with transparency = 0
\* return black and call no color_at.
C3_ZeroCoefficientShortCircuits ==
    [][(/\ pc = "running"
        /\ top.pc \in {"reflected_color", "refracted_color"}
        /\ frame_budget(Len(stack)) > 0)
       => (/\ (top.pc = "reflected_color" /\ top_material.reflective = 0)
                => /\ Len(stack') = Len(stack)
                   /\ pc' = "running"
                   /\ top'.reflected = black
                   /\ top'.pc = "refracted_color"
           /\ (top.pc = "refracted_color" /\ top_material.transparency = 0)
                => /\ Len(stack') = Len(stack)
                   /\ pc' = "running"
                   /\ top'.refracted = black
                   /\ top'.pc = "shade_hit")]_vars

\* C3's case: both have returned black for a material with reflective = 0 and
\* transparency = 0 while budget was left
C3_Witness ==
    /\ pc = "running"
    /\ top.pc = "shade_hit"
    /\ frame_budget(Len(stack)) > 0
    /\ top_material.reflective = 0
    /\ top_material.transparency = 0
    /\ top.reflected = black
    /\ top.refracted = black

\* C4 as stated: called with None, the budget is 5: the frame whose budget is
\* 0 (where the trace returns black) is the fifth nested re-entry.
C4_DefaultBudgetFive ==
    (stack # <<>> /\ remaining = None /\ frame_budget(Len(stack)) = 0)
        => Len(stack) = 5 + 1

\* C4 amended: called with None, the budget is 3: color_at is re-entered at
\* most 3 times in a nest, and the frame whose budget is 0 is exactly the
\* third nested re-entry.
C4_DefaultBudgetThree ==
    (stack # <<>> /\ remaining = None)
        => /\ Len(stack) <= 3 + 1
           /\ frame_budget(Len(stack)) = 0 <=> Len(stack) = 3 + 1

\* C4's case: called with None, the third nested re-entry has met a
\* reflective surface and its reflected_color has returned black
C4_Witness ==
    /\ pc = "running"
    /\ remaining = None
    /\ Len(stack) = 3 + 1
    /\ top.pc = "refracted_color"
    /\ top_material.reflective = 1
    /\ top.reflected = black

(***************************************************************************)
(* hit on its own: every list of up to MaxLen intersections, in any order, *)
(* handed to hit as it is, after the caller's sort_by (as intersect_world  *)
(* and the tests do), and to the legacy hit.                               *)
(***************************************************************************)
HitTs == {0 - 3, 0, 2, 5, 7}

HitLists ==
    UNION {[1..n -> {Intersection(t, obj) : t \in HitTs, obj \in {1, 2}}] : n \in 0..MaxLen}

HitWorld == FacingPlanes(Material(0, 0, 2), Material(0, 0, 2))

InitHit ==
    /\ world = HitWorld
    /\ ray = NoRay
    /\ remaining = None
    /\ xs \in HitLists
    /\ out = None
    /\ pc = "idle"
    /\ stack = <<>>
    /\ result = None

\* hit(&xs)
call_hit ==
    /\ pc = "idle"
    /\ out' = Some([list |-> xs, hit |-> hit(xs)])
    /\ pc' = "hit"
    /\ UNCHANGED <<world, ray, remaining, xs, stack, result>>

\* xs.sort_by(...); hit(&xs)
call_sort_and_hit ==
    /\ pc = "idle"
    /\ out' = Some([list |-> sort_by_t(xs), hit |-> hit(sort_by_t(xs))])
    /\ pc' = "sort_and_hit"
    /\ UNCHANGED <<world, ray, remaining, xs, stack, result>>

\* the legacy hit(&mut xs)
call_hit_legacy ==
    /\ pc = "idle"
    /\ out' = Some([list |-> sort_by_t(xs), hit |-> hit_legacy(xs)])
    /\ pc' = "hit_legacy"
    /\ UNCHANGED <<world, ray, remaining, xs, stack, result>>

NextHit == call_hit \/ call_sort_and_hit \/ call_hit_legacy

SpecHit == InitHit /\ [][NextHit]_vars

is_sorted(list) == \A i \in 1..Len(list), j \in 1..Len(list) : i < j => list[i].t <= list[j].t

ts_of(list) == [k \in 1..Len(list) |-> list[k].t]

\* h is the first element of list with t >= 0, or None when there is none
first_non_negative(list, h) ==
    /\ h = None <=> \A i \in 1..Len(list) : list[i].t < 0
    /\ h # None => \E k \in 1..Len(list) :
                     /\ unwrap(h) = list[k]
                     /\ list[k].t >= 0
                     /\ \A j \in 1..(k - 1) : list[j].t < 0

\* h has the smallest non-negative t of list, or is None when there is none
lowest_non_negative(list, h) ==
    /\ h = None <=> \A i \in 1..Len(list) : list[i].t < 0
    /\ h # None => /\ \E k \in 1..Len(list) : unwrap(h) = list[k]
                   /\ unwrap(h).t >= 0
                   /\ \A j \in 1..Len(list) : list[j].t >= 0 => unwrap(h).t <= list[j].t

\* C5: for every list sorted ascending by t, hit returns the first element
\* with t >= 0 (t = 0 counts), which has the smallest non-negative t, and
\* returns None exactly when the list is empty or every t is negative.
C5_HitOfSortedList ==
    (pc = "hit" /\ is_sorted(xs))
        => /\ first_non_negative(xs, unwrap(out).hit)
           /\ lowest_non_negative(xs, unwrap(out).hit)

\* C5's case: a sorted list that starts with a negative t followed by t = 0,
\* and hit has returned the element with t = 0
C5_Witness ==
    /\ pc = "hit"
    /\ is_sorted(xs)
    /\ Len(xs) >= 3
    /\ xs[1].t < 0
    /\ xs[2].t = 0
    /\ unwrap(out).hit = Some(xs[2])

\* C6 as stated: hit returns the intersection with the lowest non-negative t
\* of the collection it is given whatever its order; given 5, 7, -3, 2 it
\* returns the one with t = 2.
C6_HitOfAnyOrder ==
    pc = "hit"
        => /\ lowest_non_negative(xs, unwrap(out).hit)
           /\ ts_of(xs) = <<5, 7, 0 - 3, 2>> => unwrap(unwrap(out).hit).t = 2

\* C6 amended: hit returns the first intersection with t >= 0 in the order
\* of the collection it is given (t = 5 for 5, 7, -3, 2); it is the one with
\* the lowest non-negative t (t = 2) once the caller has sorted the
\* collection, and for the legacy hit, which sorts its argument itself.
C6_HitAfterSort ==
    /\ pc = "hit"
        => /\ first_non_negative(xs, unwrap(out).hit)
           /\ ts_of(xs) = <<5, 7, 0 - 3, 2>> => unwrap(unwrap(out).hit).t = 5
    /\ pc \in {"sort_and_hit", "hit_legacy"}
        => /\ lowest_non_negative(xs, unwrap(out).hit)
           /\ ts_of(xs) = <<5, 7, 0 - 3, 2>> => unwrap(unwrap(out).hit).t = 2

\* C6's case: 5, 7, -3, 2 sorted by the caller, and hit has returned t = 2
C6_Witness ==
    /\ pc = "sort_and_hit"
    /\ ts_of(xs) = <<5, 7, 0 - 3, 2>>
    /\ ts_of(unwrap(out).list) = <<0 - 3, 2, 5, 7>>
    /\ unwrap(unwrap(out).hit).t = 2

(***************************************************************************)
(* intersect_world on its own: worlds of up to MaxShapes shapes whose      *)
(* surfaces coincide in places, so that equal t values come from different *)
(* shapes, and a cone, whose own report is not in ascending order.         *)
(***************************************************************************)
Matte == Material(0, 0, 2)

WorldShapes ==
    {Plane(Transform(0, 1, FALSE), Matte),
     Plane(Transform(4, 1, FALSE), Matte),
     Sphere(Transform(2, 2, FALSE), Matte),
     Sphere(Transform(2, 2, TRUE), Matte),
     Cone(Transform(2, 2, FALSE), Matte, 1, 0 - 1, TRUE)}

Worlds ==
    {World(objects, PointLight(Tuple(0 - 2))) :
        objects \in UNION {[1..n -> WorldShapes] : n \in 0..MaxShapes}}

WorldRays == {Ray(Tuple(o), Tuple(d), 0) : o \in {0 - 3, 2}, d \in {0 - 1, 0, 1}}

InitWorld ==
    /\ world \in Worlds
    /\ ray \in WorldRays
    /\ remaining = None
    /\ xs = <<>>
    /\ out = None
    /\ pc = "idle"
    /\ stack = <<>>
    /\ result = None

\* ray.intersect_world(&world)
call_intersect_world ==
    /\ pc = "idle"
    /\ out' = Some(intersect_world(ray, world))
    /\ pc' = "intersect_world"
    /\ UNCHANGED <<world, ray, remaining, xs, stack, result>>

NextWorld == call_intersect_world

SpecWorld == InitWorld /\ [][NextWorld]_vars

reported(k) == intersects(world, k, ray)

count(list, x) == Cardinality({i \in 1..Len(list) : list[i] = x})

RECURSIVE reported_total(_)
reported_total(k) == IF k = 0 THEN 0 ELSE reported_total(k - 1) + Len(reported(k).val)

\* C7: when every shape's intersects succeeds, intersect_world returns
\* exactly the intersections the shapes report (the same elements, as often
\* as reported, each naming its shape), in ascending order of t, intersections
\* of equal t in world order of their shapes.
C7_IntersectWorldSorted ==
    (pc = "intersect_world" /\ \A k \in 1..Len(world.objects) : reported(k).ok)
        => LET list == unwrap(out).val
           IN  /\ unwrap(out).ok
               /\ Len(list) = reported_total(Len(world.objects))
               /\ \A k \in 1..Len(world.objects) : \A i \in 1..Len(reported(k).val) :
                      count(list, reported(k).val[i]) = count(reported(k).val, reported(k).val[i])
               /\ is_sorted(list)
               /\ \A i \in 1..Len(list), j \in 1..Len(list) :
                      (i < j /\ list[i].t = list[j].t) => list[i].object <= list[j].object

\* C7's case: three shapes, the second's report out of order on its own, and
\* intersections of equal t from different shapes in the returned list
C7_Witness ==
    /\ pc = "intersect_world"
    /\ Len(world.objects) = 3
    /\ unwrap(out).ok
    /\ ~is_sorted(reported(2).val)
    /\ \E i \in 1..Len(unwrap(out).val), j \in 1..Len(unwrap(out).val) :
          /\ i < j
          /\ unwrap(out).val[i].t = unwrap(out).val[j].t
          /\ unwrap(out).val[i].object < unwrap(out).val[j].object

(***************************************************************************)
(* prepare_computations on its own: the scene of refraction_test, two      *)
(* shapes of equal transform, origin and material, and a closed cone met   *)
(* along its axis; the list is the one intersect_world returns or a        *)
(* hand-built sorted list of up to MaxXs intersections, as the tests build *)
(* them, and the intersection is any element of it.                        *)
(***************************************************************************)
Glass(refractive_index) == Material(0, 1, refractive_index)

\* refraction_test: A (1.5) scaled by 2, B (2.0) at -0.25, C (2.5) at 0.25,
\* four units of the axis to one of the test's
RefractionWorld ==
    World(<<Sphere(Transform(0, 8, FALSE), Glass(3)),
            Sphere(Transform(0 - 1, 4, FALSE), Glass(4)),
            Sphere(Transform(1, 4, FALSE), Glass(5))>>, PointLight(Tuple(0 - 20)))

RefractionRay == Ray(Tuple(0 - 16), Tuple(1), 0)

\* the list of refraction_test: A, B, C, B, C, A at 2, 2.75, 3.25, 4.75, 5.25, 6
RefractionXs ==
    <<Intersection(8, 1), Intersection(11, 2), Intersection(13, 3),
      Intersection(19, 2), Intersection(21, 3), Intersection(24, 1)>>

\* the (n1, n2) the test expects, doubled
RefractionPairs == <<<<2, 3>>, <<3, 4>>, <<4, 5>>, <<5, 5>>, <<5, 3>>, <<3, 2>>>>

\* a glass sphere and a glass cone of the same transform and material
TwinWorld ==
    World(<<Sphere(Transform(0, 2, FALSE), Glass(3)),
            Cone(Transform(0, 2, FALSE), Glass(3), 1, 0 - 1, TRUE)>>, PointLight(Tuple(0 - 20)))

ConeWorld ==
    World(<<Cone(Transform(0, 1, FALSE), Matte, 2, 0 - 2, TRUE)>>, PointLight(Tuple(0 - 20)))

CompsCases ==
    {[world |-> RefractionWorld, ray |-> RefractionRay, ts |-> {8, 11, 13}]}
    \cup {[world |-> w, ray |-> Ray(Tuple(0 - 3 * d), Tuple(d), 0), ts |-> {1, 5}] :
            w \in {TwinWorld, ConeWorld}, d \in {0 - 1, 1}}

sorted_lists(c) ==
    {l \in UNION {[1..n -> {Intersection(t, obj) : t \in c.ts,
                                                  obj \in 1..Len(c.world.objects)}] :
                    n \in 0..MaxXs} : is_sorted(l)}

InitComps ==
    /\ \E c \in CompsCases :
          /\ world = c.world
          /\ ray = c.ray
          /\ xs \in sorted_lists(c) \cup {intersect_world(c.ray, c.world).val}
    /\ remaining = None
    /\ out = None
    /\ pc = "idle"
    /\ stack = <<>>
    /\ result = None

\* ray.prepare_computations(&xs[k], Some(&xs))
call_prepare_computations(k) ==
    /\ pc = "idle"
    /\ out' = Some([k |-> k, listed |-> TRUE,
                    comps |-> prepare_computations(world, ray, xs[k], Some(xs))])
    /\ pc' = "prepare_computations"
    /\ UNCHANGED <<world, ray, remaining, xs, stack, result>>

\* ray.prepare_computations(&xs[k], None)
call_prepare_computations_alone(k) ==
    /\ pc = "idle"
    /\ out' = Some([k |-> k, listed |-> FALSE,
                    comps |-> prepare_computations(world, ray, xs[k], None)])
    /\ pc' = "prepare_computations"
    /\ UNCHANGED <<world, ray, remaining, xs, stack, result>>

NextComps ==
    \/ \E k \in 1..Len(xs) : call_prepare_computations(k)
    \/ \E k \in 1..Len(xs) : call_prepare_computations_alone(k)

SpecComps == InitComps /\ [][NextComps]_vars

\* the containment stack of shapes told apart by their place in the world,
\* after the first j elements of the list
RECURSIVE stack_by_identity(_, _)
stack_by_identity(list, j) ==
    IF j = 0 THEN <<>>
    ELSE LET before == stack_by_identity(list, j - 1)
             obj == list[j].object
         IN  IF \E i \in 1..Len(before) : before[i] = obj
             THEN SelectSeq(before, LAMBDA x : x # obj)
             ELSE Append(before, obj)

\* the stack the code keeps, after the first j elements of the list
RECURSIVE stack_by_value(_, _)
stack_by_value(list, j) ==
    IF j = 0 THEN <<>>
    ELSE update_container(world, stack_by_value(list, j - 1), list[j])

\* the position at which the walk of prepare_computations stops
stop_of(k) == CHOOSE j \in 1..k : /\ intersection_eq(world, xs[k], xs[j])
                                  /\ \A i \in 1..(j - 1) : ~intersection_eq(world, xs[k], xs[i])

\* C8: for every sorted list and every element h of it, n1 is the refractive
\* index of the top of the containment stack (push at the first encounter of
\* a shape, removal at its next) just before h is processed and n2 the one
\* just after, 1.0 for an empty stack; A, B, C, B, C, A gives the six pairs
\* of refraction_test.
C8_RefractiveIndices ==
    (pc = "prepare_computations" /\ unwrap(out).listed)
        => LET k == unwrap(out).k
               comps == unwrap(out).comps
           IN  /\ comps.n1 = top_index(world, stack_by_identity(xs, k - 1))
               /\ comps.n2 = top_index(world, stack_by_identity(xs, k))
               /\ (world = RefractionWorld /\ xs = RefractionXs)
                      => <<comps.n1, comps.n2>> = RefractionPairs[k]

\* C9: the containment stack tells shapes apart by identity: whenever the
\* walk finds the shape of an element already on the stack, the entry found
\* and removed is that very shape, never another shape of equal transform,
\* origin and material.
C9_StackByIdentity ==
    (pc = "prepare_computations" /\ unwrap(out).listed)
        => \A j \in 1..stop_of(unwrap(out).k) :
              LET container == stack_by_value(xs, j - 1)
              IN  contains(world, container, xs[j].object)
                      => container[position_of(world, container, xs[j].object)] = xs[j].object

\* C10: inside is true exactly when the shape's normal at the hit point has
\* a negative dot product with eye = -direction, the normal returned is the
\* negated one in that case and the shape's otherwise, so that
\* normal . eye >= 0; t and object are those of the intersection.
C10_InsideAndNormal ==
    pc = "prepare_computations"
        => LET k == unwrap(out).k
               comps == unwrap(out).comps
               shape_normal == normal_at(world.objects[xs[k].object], position(ray, xs[k].t))
           IN  /\ comps.eye = neg(ray.direction)
               /\ comps.inside <=> dot_lt_zero(shape_normal, comps.eye)
               /\ comps.normal = IF comps.inside THEN neg(shape_normal) ELSE shape_normal
               /\ dot_ge_zero(comps.normal, comps.eye)
               /\ comps.t = xs[k].t
               /\ comps.object = xs[k].object

(***************************************************************************)
(* is_shadowed on its own: the worlds of intersect_world with the light    *)
(* before, inside and behind the shapes, and points on either side of the  *)
(* light, on it, and on either side of the shapes.                         *)
(***************************************************************************)
LightPositions == {0 - 2, 2, 6}

ShadowPoints == {0 - 3, 0 - 1, 1, 2, 3, 5, 6}

ShadowWorlds ==
    {World(objects, PointLight(Tuple(l))) :
        objects \in UNION {[1..n -> WorldShapes] : n \in 0..MaxShapes}, l \in LightPositions}

InitShadow ==
    /\ world \in ShadowWorlds
    /\ ray = NoRay
    /\ remaining = None
    /\ xs = <<>>
    /\ out = None
    /\ pc = "idle"
    /\ stack = <<>>
    /\ result = None

\* world.is_shadowed(point); ray is the ray it casts toward the light
call_is_shadowed(point) ==
    /\ pc = "idle"
    /\ ray' = Ray(point, normalise(sub(world.light.position, point)), 0)
    /\ out' = Some([point |-> point, shadowed |-> is_shadowed(world, point)])
    /\ pc' = "is_shadowed"
    /\ UNCHANGED <<world, remaining, xs, stack, result>>

NextShadow == \E y \in ShadowPoints : call_is_shadowed(Tuple(y))

SpecShadow == InitShadow /\ [][NextShadow]_vars

\* some shape is met by the ray toward the light at 0 <= t < distance
met_before_light ==
    \E k \in 1..Len(world.objects) : \E i \in 1..Len(reported(k).val) :
        LET x == reported(k).val[i]
        IN  ~x.nan /\ 0 <= x.t /\ x.t < abs(world.light.position.y - ray.origin.y)

\* C11: is_shadowed(point) returns true exactly when some shape is met by the
\* ray from point toward the light at 0 <= t < distance(point, light); a
\* shape beyond the light or behind the point does not shadow, and a world
\* with no such hit gives false.
C11_ShadowedExactly ==
    pc = "is_shadowed" => unwrap(out).shadowed = Ok(met_before_light)

(***************************************************************************)
(* shade_hit's blend, checked on the color_at recursion (Spec).            *)
(***************************************************************************)
\* the color the claim gives for the shade_hit of the innermost activation
blend_of_top ==
    LET R == schlick(unwrap(top.comps))
    IN  IF top_material.reflective > 0 /\ top_material.transparency > 0
        THEN top.surface + (top.reflected * R[1] + top.refracted * (R[2] - R[1])) \div R[2]
        ELSE top.surface + top.reflected + top.refracted

\* C12: shade_hit returns surface + reflected * R + refracted * (1 - R) with
\* R = schlick(comps) exactly when reflective > 0 and transparency > 0, and
\* the plain sum surface + reflected + refracted in every other case; the
\* color goes to the caller of color_at, or to the reflected_color or
\* refracted_color that called it.
C12_ShadeHitBlend ==
    [][(pc = "running" /\ top.pc = "shade_hit")
          => IF Len(stack) = 1
             THEN result' = Some(Ok(blend_of_top)) /\ pc' = "done"
             ELSE stack' = [callers EXCEPT ![Len(callers)] = resume(world, @, blend_of_top)]]_vars

\* C12's case: a reflective and transparent glass sphere (reflectance 0.04)
\* in front of a plane, met from outside with budget 1: surface 3, reflected
\* 0 and refracted 1 have been blended to 3, where the plain sum is 4
C12_Witness ==
    /\ pc = "done"
    /\ world = SphereAndPlane(Material(1, 1, 3), Material(0, 0, 2))
    /\ ray = Ray(Tuple(0 - 3), Tuple(1), 0)
    /\ remaining = Some(1)
    /\ result = Some(Ok(3))

(***************************************************************************)
(* The error of a degenerate ray, checked on the color_at recursion (Spec).*)
(***************************************************************************)
DirectionIsZero == "Direction is zero or close to zero"

spheres_of(w) == {k \in 1..Len(w.objects) : w.objects[k].kind = "sphere"}

\* C13: for a ray of zero direction every sphere's intersects is the error
\* "Direction is zero or close to zero" (no list, empty or not), and
\* intersect_world and color_at hand that error to their caller as Err: no
\* list of the other shapes' intersections, no color, no shading step.
C13_ZeroDirectionIsErr ==
    (pc # "idle" /\ ray.direction = Tuple(0) /\ spheres_of(world) # {})
        => /\ \A k \in spheres_of(world) : intersects(world, k, ray) = Err(DirectionIsZero)
           /\ intersect_world(ray, world) = Err(DirectionIsZero)
           /\ pc \in {"running", "done"}
           /\ pc = "running" => Len(stack) = 1 /\ top.pc = "color_at"
           /\ pc = "done" => result = Some(Err(DirectionIsZero))

\* C13's case: a plane, then a sphere, a ray of zero direction, and color_at
\* has returned the error
C13_Witness ==
    /\ pc = "done"
    /\ ray.direction = Tuple(0)
    /\ Len(world.objects) = 2
    /\ world.objects[1].kind = "plane"
    /\ world.objects[2].kind = "sphere"
    /\ result = Some(Err(DirectionIsZero))

(***************************************************************************)
(* Camera.  The camera looks along the axis, toward facing (1 or -1, the   *)
(* orientation part of its view transform); transform is the rest of the   *)
(* view transform.  The sideways coordinates of a pixel are kept doubled   *)
(* and divided by pixel_size, which leaves their sign.                     *)
(***************************************************************************)
Camera(hsize, vsize, transform, facing) ==
    [transform |-> transform, hsize |-> hsize, vsize |-> vsize, facing |-> facing]

\* Camera::ray_for_pixel
ray_for_pixel(camera, px, py) ==
    LET world_x == camera.hsize - (2 * px + 1)
        world_y == camera.vsize - (2 * py + 1)
        inv == inverse(camera.transform)
    IN  IF ~is_some(inv) THEN Panic("Cannot inverse camera transform")
        ELSE LET pixel == mul_point(unwrap(inv), <<world_x, camera.facing, world_y>>)
                 origin == mul_point(unwrap(inv), <<0, 0, 0>>)
                 direction == [k \in 1..3 |-> pixel[k] - origin[k]]
             IN  Ok(Ray(Tuple(origin[2]), normalise(Tuple(direction[2])),
                        IF direction[1] = 0 /\ direction[3] = 0 THEN 0 ELSE 3))

(***************************************************************************)
(* The operations that invert a transform, each called on its own          *)
(* (SpecInverse).  out records the matrices the operation inverts and what *)
(* it gave.                                                                *)
(***************************************************************************)
Scales == {0, 1, 2}

Translations == {0 - 2, 0, 2}

Matrices == {Matrix(s, 1, <<0, t, 0>>) : s \in Scales, t \in Translations}

InverseShapes ==
    UNION {{Sphere(Transform(t, s, FALSE), Matte), Plane(Transform(t, s, FALSE), Matte),
            Cone(Transform(t, s, FALSE), Matte, 1, 0 - 1, TRUE)} :
                s \in Scales, t \in Translations}

InversePatterns == {ColorPattern(k, 0, 1, m) : k \in {"test", "stripe"}, m \in Matrices}

InversePoints == {0 - 4, 0, 4}

InitInverse ==
    /\ world = World(<<>>, PointLight(Tuple(0 - 2)))
    /\ ray = NoRay
    /\ remaining = None
    /\ xs = <<>>
    /\ out = None
    /\ pc = "idle"
    /\ stack = <<>>
    /\ result = None

\* m.inverse()
call_inverse(m) ==
    /\ pc = "idle"
    /\ out' = Some([inverts |-> <<m>>, got |-> inverse(m)])
    /\ pc' = "inverse"
    /\ UNCHANGED <<world, ray, remaining, xs, stack, result>>

\* shape.intersects(&r), the shape being the world's only object
call_intersects(shape, r) ==
    /\ pc = "idle"
    /\ world' = World(<<shape>>, world.light)
    /\ ray' = r
    /\ out' = Some([inverts |-> <<matrix_of(shape.transform)>>,
                    got |-> intersects(world', 1, r)])
    /\ pc' = "intersects"
    /\ UNCHANGED <<remaining, xs, stack, result>>

\* shape.normal_at(point)
call_normal_at(shape, point) ==
    /\ pc = "idle"
    /\ world' = World(<<shape>>, world.light)
    /\ out' = Some([inverts |-> <<matrix_of(shape.transform)>>,
                    got |-> normal_at_call(shape, point)])
    /\ pc' = "normal_at"
    /\ UNCHANGED <<ray, remaining, xs, stack, result>>

\* pattern.pattern_at_object(&shape, &point)
call_pattern_at_object(pattern, shape, point) ==
    /\ pc = "idle"
    /\ world' = World(<<shape>>, world.light)
    /\ out' = Some([inverts |-> <<matrix_of(shape.transform), pattern.transform>>,
                    pattern |-> pattern, point |-> point,
                    got |-> pattern_at_object(pattern, shape, point)])
    /\ pc' = "pattern_at_object"
    /\ UNCHANGED <<ray, remaining, xs, stack, result>>

\* camera.ray_for_pixel(px, py)
call_ray_for_pixel(camera, px, py) ==
    /\ pc = "idle"
    /\ out' = Some([inverts |-> <<camera.transform>>,
                    got |-> ray_for_pixel(camera, px, py)])
    /\ pc' = "ray_for_pixel"
    /\ UNCHANGED <<world, ray, remaining, xs, stack, result>>

NextInverse ==
    \/ \E m \in Matrices : call_inverse(m)
    \/ \E shape \in InverseShapes, r \in WorldRays : call_intersects(shape, r)
    \/ \E shape \in InverseShapes, y \in InversePoints : call_normal_at(shape, Tuple(y))
    \/ \E pattern \in InversePatterns, shape \in InverseShapes, y \in InversePoints :
            call_pattern_at_object(pattern, shape, <<y, y + 1, y + 2>>)
    \/ \E m \in Matrices, facing \in {0 - 1, 1}, px \in 0..2, py \in 0..2 :
            call_ray_for_pixel(Camera(3, 3, m, facing), px, py)

SpecInverse == InitInverse /\ [][NextInverse]_vars

\* the operation has inverted a singular matrix
inverts_singular == \E k \in 1..Len(unwrap(out).inverts) : det(unwrap(out).inverts[k]) = 0

\* C14: Matrix4D::inverse gives None exactly when the determinant is 0, and
\* intersects, normal_at, pattern_at_object and ray_for_pixel panic, giving
\* no value at all, exactly when a transform they invert is singular.
C14_SingularIsFatal ==
    /\ pc = "inverse" => (unwrap(out).got = None <=> inverts_singular)
    /\ pc \in {"intersects", "normal_at", "pattern_at_object", "ray_for_pixel"} =>
          /\ unwrap(out).got.panic <=> inverts_singular
          /\ unwrap(out).got.panic => unwrap(out).got.val = <<>> /\ ~unwrap(out).got.ok

\* C14's case: a shape of singular transform was asked for its normal, and
\* the call panicked
C14_Witness ==
    /\ pc = "normal_at"
    /\ det(matrix_of(world.objects[1].transform)) = 0
    /\ unwrap(out).got = Panic(UnwrapNone)

(***************************************************************************)
(* color_at without a hit, checked on the color_at recursion (Spec).       *)
(***************************************************************************)
\* the color_at at the top of the stack returns color at once: its frame is
\* gone and no frame was pushed; its caller, if any, resumes with color
returns_at_once(color) ==
    IF Len(stack) = 1
    THEN stack' = <<>> /\ result' = Some(Ok(color)) /\ pc' = "done"
    ELSE /\ pc' = "running"
         /\ stack' = [callers EXCEPT ![Len(callers)] = resume(world, @, color)]

\* C16: when no shape is met at t >= 0, color_at returns Ok(black) in that
\* very step, with no frame for a shading step or a secondary ray; otherwise
\* it goes on to shade_hit with the computations of the intersection of
\* lowest non-negative t, prepared with the whole sorted list.
C16_BlackWithoutHit ==
    [][(pc = "running" /\ top.pc = "color_at" /\ intersect_world(top.ray, world).ok) =>
        LET list == intersect_world(top.ray, world).val
        IN  IF \A i \in 1..Len(list) : ~list[i].nan /\ list[i].t < 0
            THEN returns_at_once(black)
            ELSE /\ pc' \in {"running", "panic"}
                 /\ pc' = "running" =>
                       /\ Len(stack') = Len(stack)
                       /\ stack'[Len(stack)].pc = "reflected_color"
                       /\ \E k \in 1..Len(list) :
                             /\ lowest_non_negative(list, Some(list[k]))
                             /\ stack'[Len(stack)].comps =
                                    Some(prepare_computations(world, top.ray, list[k],
                                                              Some(list)))]_vars

\* C16's case: a sphere and a plane all behind the ray, and color_at has
\* returned black
C16_Witness ==
    /\ pc = "done"
    /\ result = Some(Ok(black))
    /\ ray = Ray(Tuple(0 - 3), Tuple(0 - 1), 0)
    /\ Len(intersect_world(ray, world).val) = 3
    /\ \A i \in 1..3 : intersect_world(ray, world).val[i].t < 0

(***************************************************************************)
(* Camera::render (SpecRender).  out holds render's locals: the camera,    *)
(* the image, the loop's x and y, and written, the calls of write_pixel    *)
(* made so far.  Each pixel's color_at runs on the call stack of the       *)
(* color_at recursion.                                                     *)
(***************************************************************************)
MaxSize == 3

\* Canvas::new
Canvas(width, height) ==
    [width |-> width, height |-> height, pixels |-> [k \in 1..(width * height) |-> black]]

\* write_pixel without its assertion
write_pixel_unchecked(canvas, x, y, color) ==
    IF canvas.width * y + x + 1 \in DOMAIN canvas.pixels
    THEN Ok([canvas EXCEPT !.pixels[canvas.width * y + x + 1] = color])
    ELSE Panic("index out of bounds")

\* Canvas::write_pixel
write_pixel(canvas, x, y, color) ==
    IF ~(y < canvas.height /\ x < canvas.width) THEN Panic("Provided values x, y")
    ELSE Ok([canvas EXCEPT !.pixels[canvas.width * y + x + 1] = color])

\* Canvas::pixel_at
pixel_at(canvas, x, y) == canvas.pixels[canvas.width * y + x + 1]

\* a glass sphere before two planes, and the light where the over_point of
\* the nearer plane lies
LightAtOverPoint ==
    World(<<Sphere(Transform(2, 2, FALSE), Glass(3)), Plane(Transform(8, 1, FALSE), Matte),
            Plane(Transform(12, 1, FALSE), Matte)>>, PointLight(Tuple(7)))

\* a plane, and a sphere so large that every ray's direction is close to
\* zero in its object space
HugeSphere ==
    World(<<Plane(Transform(4, 1, FALSE), Matte), Sphere(Transform(2, 16, FALSE), Matte)>>,
          PointLight(Tuple(2)))

\* a plane of singular transform
SingularPlane == World(<<Plane(Transform(4, 0, FALSE), Matte)>>, PointLight(Tuple(2)))

RenderWorlds ==
    {World(<<>>, PointLight(Tuple(2))),
     SphereAndPlane(Material(1, 1, 3), Matte),
     FacingPlanes(Material(1, 0, 2), Material(1, 0, 2)),
     LightAtOverPoint, HugeSphere, SingularPlane}

Cameras ==
    {Camera(hsize, vsize, Matrix(scale, 1, <<0, t, 0>>), facing) :
        hsize \in 1..MaxSize, vsize \in 1..MaxSize, scale \in {0, 1}, t \in {0 - 2, 3},
        facing \in {0 - 1, 1}}

InitRender ==
    /\ world \in RenderWorlds
    /\ ray = NoRay
    /\ remaining = None
    /\ xs = <<>>
    /\ out = None
    /\ pc = "idle"
    /\ stack = <<>>
    /\ result = None

\* camera.render(&world), up to its loop
call_render(camera) ==
    /\ pc = "idle"
    /\ out' = Some([camera |-> camera, image |-> Canvas(camera.hsize, camera.vsize),
                    x |-> 0, y |-> 0, written |-> <<>>])
    /\ pc' = "render"
    /\ UNCHANGED <<world, ray, remaining, xs, stack, result>>

\* the loop's body up to the call world.color_at(&r, None)
render_pixel ==
    /\ pc = "render"
    /\ unwrap(out).y < unwrap(out).camera.vsize
    /\ LET r == ray_for_pixel(unwrap(out).camera, unwrap(out).x, unwrap(out).y)
       IN  IF r.panic THEN pc' = "panic" /\ UNCHANGED <<ray, remaining, stack>>
           ELSE /\ ray' = r.val
                /\ remaining' = None
                /\ stack' = <<Frame(r.val, None)>>
                /\ pc' = "running"
    /\ UNCHANGED <<world, xs, out, result>>

\* loop_next that takes every other column
loop_next_by_two(camera, x, y) ==
    IF x + 2 >= camera.hsize THEN [x |-> 0, y |-> y + 1] ELSE [x |-> x + 2, y |-> y]

\* for y in 0..vsize { for x in 0..hsize {..} }: the pixel after (x, y)
loop_next(camera, x, y) ==
    IF x + 1 = camera.hsize THEN [x |-> 0, y |-> y + 1] ELSE [x |-> x + 1, y |-> y]

\* the match on the color: write_pixel and the loop's next x and y, or
\* return Err(err)
render_match ==
    /\ pc = "done"
    /\ is_some(out)
    /\ LET l == unwrap(out)
           color == unwrap(result)
           image == write_pixel(l.image, l.x, l.y, color.val)
           next == loop_next(l.camera, l.x, l.y)
       IN  IF ~color.ok THEN pc' = "render_failed" /\ UNCHANGED <<out, result>>
           ELSE IF image.panic THEN pc' = "panic" /\ UNCHANGED <<out, result>>
           ELSE /\ out' = Some([l EXCEPT !.image = image.val,
                                         !.x = next.x, !.y = next.y,
                                         !.written = Append(@, <<l.x, l.y, color.val>>)])
                /\ result' = None
                /\ pc' = "render"
    /\ UNCHANGED <<world, ray, remaining, xs, stack>>

\* Ok(image) after the loop
render_return ==
    /\ pc = "render"
    /\ unwrap(out).y = unwrap(out).camera.vsize
    /\ result' = Some(Ok(unwrap(out).image))
    /\ pc' = "rendered"
    /\ UNCHANGED <<world, ray, remaining, xs, out, stack>>

NextRender ==
    \/ \E camera \in Cameras : call_render(camera)
    \/ render_pixel
    \/ color_at
    \/ reflected_color
    \/ refracted_color
    \/ shade_hit
    \/ render_match
    \/ render_return

SpecRender == InitRender /\ [][NextRender]_vars

\* render has failed: it returned Err, or the thread panicked
render_failed == pc \in {"panic", "render_failed", "stack_overflow"}

\* the primary ray of pixel (x, y) can be traced: the camera gives a ray and
\* every shape can be intersected with it
primary_ray_traced(camera, x, y) ==
    /\ ray_for_pixel(camera, x, y).ok
    /\ intersect_world(ray_for_pixel(camera, x, y).val, world).ok

\* C15: a pixel whose color_at gives Err makes render return that Err at
\* once; when render fails, by Err or by panic, its result is no canvas, the
\* image and the loop stay as they were, and no step follows (no later pixel
\* is traced or written); a canvas is returned only if every primary ray
\* could be traced.
C15_PixelFailureFailsRender ==
    [][/\ ~render_failed
       /\ (pc = "done" /\ ~unwrap(result).ok) =>
             (pc' = "render_failed" /\ result' = result /\ out' = out)
       /\ render_failed' =>
             (out' = out /\ (result' = None \/ ~unwrap(result').ok))
       /\ pc' = "rendered" =>
             \A x \in 0..(unwrap(out).camera.hsize - 1),
                y \in 0..(unwrap(out).camera.vsize - 1) :
                primary_ray_traced(unwrap(out).camera, x, y)]_vars

\* C15's case: the first pixel was written, the second failed on a secondary
\* ray (a panic below the primary color_at), pixels are left, and there is
\* no result
C15_Witness ==
    /\ pc = "panic"
    /\ is_some(out)
    /\ Len(unwrap(out).written) = 1
    /\ Len(stack) >= 2
    /\ unwrap(out).camera.hsize * unwrap(out).camera.vsize > 2
    /\ result = None

\* the calls of write_pixel made for pixel (x, y)
writes_of(l, x, y) == {k \in 1..Len(l.written) : l.written[k][1] = x /\ l.written[k][2] = y}

\* C17: the canvas render returns has hsize x vsize pixels; every pixel of it
\* was written by exactly one write_pixel call, no call was made for a pixel
\* outside it, and the pixel holds the value written; each value written for
\* (x, y) is the color returned by the color_at that was called with
\* ray_for_pixel(x, y) and no depth (the default budget).
C17_EveryPixelOnce ==
    [][/\ pc' = "rendered" =>
             LET l == unwrap(out')
                 image == unwrap(result').val
             IN  /\ unwrap(result').ok
                 /\ image.width = l.camera.hsize /\ image.height = l.camera.vsize
                 /\ Len(image.pixels) = l.camera.hsize * l.camera.vsize
                 /\ Len(l.written) = l.camera.hsize * l.camera.vsize
                 /\ \A k \in 1..Len(l.written) :
                       /\ l.written[k][1] \in 0..(l.camera.hsize - 1)
                       /\ l.written[k][2] \in 0..(l.camera.vsize - 1)
                 /\ \A x \in 0..(l.camera.hsize - 1), y \in 0..(l.camera.vsize - 1) :
                       /\ Cardinality(writes_of(l, x, y)) = 1
                       /\ \A k \in writes_of(l, x, y) : pixel_at(image, x, y) = l.written[k][3]
       /\ (pc = "render" /\ pc' = "running") =>
             /\ ray_for_pixel(unwrap(out).camera, unwrap(out).x, unwrap(out).y).ok
             /\ stack' = <<Frame(ray_for_pixel(unwrap(out).camera, unwrap(out).x,
                                               unwrap(out).y).val, None)>>
       /\ (pc = "done" /\ pc' = "render") =>
             /\ unwrap(out').written =
                    Append(unwrap(out).written,
                           <<unwrap(out).x, unwrap(out).y, unwrap(result).val>>)
             /\ ray = ray_for_pixel(unwrap(out).camera, unwrap(out).x, unwrap(out).y).val
             /\ remaining = None]_vars

\* C17's case: a canvas of 3 x 1 pixels was returned for the world of a
\* sphere before a plane, and the pixel on the axis differs from the others
C17_Witness ==
    /\ pc = "rendered"
    /\ Len(world.objects) = 2
    /\ unwrap(out).camera.hsize = 3
    /\ unwrap(out).camera.vsize = 1
    /\ Len(unwrap(out).written) = 3
    /\ Len(unwrap(result).val.pixels) = 3
    /\ unwrap(result).val.pixels[1] # unwrap(result).val.pixels[2]

(***************************************************************************)
(* color_at as a function of the world and the ray, checked on render      *)
(* (SpecRender), where it is called pixel after pixel.                     *)
(***************************************************************************)
\* the ray traced for the k-th write_pixel call
ray_written(l, k) == ray_for_pixel(l.camera, l.written[k][1], l.written[k][2]).val

\* C18: no step of color_at or of render changes the world; while a
\* color_at runs, its ray and depth and those of every call below it on the
\* stack stay as they were; and pixels of equal rays were written with equal
\* colors, whatever was rendered before them.
C18_ColorAtIsPure ==
    [][/\ world' = world
       /\ pc = "running" =>
             /\ ray' = ray /\ remaining' = remaining /\ out' = out
             /\ \A k \in 1..Len(stack) : k <= Len(stack') =>
                   /\ stack'[k].ray = stack[k].ray
                   /\ stack'[k].remaining = stack[k].remaining
       /\ is_some(out') =>
             \A i, j \in 1..Len(unwrap(out').written) :
                ray_written(unwrap(out'), i) = ray_written(unwrap(out'), j)
                    => unwrap(out').written[i][3] = unwrap(out').written[j][3]]_vars

\* C18's case: the first and the last pixel of a row of three have the same
\* ray and were written with the same color, which reflection and
\* refraction took part in; the pixel between them has another
C18_Witness ==
    /\ pc = "rendered"
    /\ world = SphereAndPlane(Material(1, 1, 3), Matte)
    /\ unwrap(out).camera.hsize = 3
    /\ unwrap(out).camera.vsize = 1
    /\ ray_written(unwrap(out), 1) = ray_written(unwrap(out), 3)
    /\ ray_written(unwrap(out), 1) # ray_written(unwrap(out), 2)
    /\ unwrap(out).written[1][3] = unwrap(out).written[3][3]
    /\ unwrap(out).written[1][3] # unwrap(out).written[2][3]

(***************************************************************************)
(* Material::lighting called on its own (SpecLighting).                    *)
(***************************************************************************)
\* two-color patterns: lighting multiplies the sample by numbers
LightingPatterns ==
    {ColorPattern(kind, 4, 8, Matrix(scale, 1, <<tx, 0, 0>>)) :
        kind \in {"stripe", "gradient", "ring", "checker"}, scale \in {0, 1, 2},
        tx \in {0, PatternUnit}}

\* flat color 2, ambient 1, diffuse 3, specular 5, with or without a pattern
LightingMaterials ==
    {[Matte EXCEPT !.color = 2, !.diffuse = 3, !.specular = 5, !.pattern = pattern] :
        pattern \in {None} \cup {Some(p) : p \in LightingPatterns}}

LightingObjects == {Plane(Transform(0, 1, FALSE), Matte), Sphere(Transform(1, 2, FALSE), Matte)}

InitLighting ==
    /\ world = World(<<>>, PointLight(Tuple(4)))
    /\ ray = NoRay
    /\ remaining = None
    /\ xs = <<>>
    /\ out = None
    /\ pc = "idle"
    /\ stack = <<>>
    /\ result = None

\* material.lighting(object, &light, &point, &eye, &normal, in_shadow)
call_lighting(material, object, light, point, eye, normal, in_shadow) ==
    /\ pc = "idle"
    /\ world' = World(<<object>>, light)
    /\ out' = Some([material |-> material, object |-> object, light |-> light,
                    point |-> point, eye |-> eye, normal |-> normal,
                    in_shadow |-> in_shadow,
                    got |-> lighting(material, object, light, point, eye, normal, in_shadow)])
    /\ pc' = "lighting"
    /\ UNCHANGED <<ray, remaining, xs, stack, result>>

NextLighting ==
    \E material \in LightingMaterials, object \in LightingObjects, l \in {0 - 4, 4},
       y \in {0 - 1, 1, 2}, eye \in {0 - 1, 1}, normal \in {0 - 1, 1}, in_shadow \in BOOLEAN :
        call_lighting(material, object, PointLight(Tuple(l)), Tuple(y), Tuple(eye),
                      Tuple(normal), in_shadow)

SpecLighting == InitLighting /\ [][NextLighting]_vars

\* the base color of the call: the pattern's sample at the point taken to
\* object space and then to pattern space, or the flat color
base_color(l) ==
    IF is_some(l.material.pattern)
    THEN pattern_at(unwrap(l.material.pattern),
                    mul_point(unwrap(inverse(unwrap(l.material.pattern).transform)),
                              mul_point(unwrap(inverse(matrix_of(l.object.transform))),
                                        point3(l.point))))
    ELSE l.material.color

\* the light direction of the call, a unit vector of the axis
light_direction(l) == sign(l.light.position.y - l.point.y)

\* C19: lighting gives the ambient term alone when in_shadow is true or the
\* light direction . normal is negative; otherwise it adds the diffuse term,
\* and the specular term as well exactly when reflect direction . eye is
\* positive (on the axis the reflect direction is the light direction).  The
\* base color is the pattern's sample when a pattern is set and the flat
\* color otherwise.
C19_LightingTerms ==
    (pc = "lighting" /\ unwrap(out).got.ok) =>
        LET l == unwrap(out)
            ambient == base_color(l) * l.light.intensity * l.material.ambient
            diffuse == base_color(l) * l.light.intensity * l.material.diffuse
                          * (light_direction(l) * l.normal.y)
            specular == l.light.intensity * l.material.specular
        IN  /\ (l.in_shadow \/ light_direction(l) * l.normal.y < 0) => l.got.val = ambient
            /\ (~l.in_shadow /\ light_direction(l) * l.normal.y >= 0) =>
                  l.got.val = ambient + diffuse
                              + (IF light_direction(l) * l.eye.y > 0 THEN specular ELSE 0)

\* C19's case: a checker pattern set, the point lit from the side of the
\* normal and of the eye: pattern color 8, ambient 8, diffuse 24, specular 5
C19_Witness ==
    /\ pc = "lighting"
    /\ is_some(unwrap(out).material.pattern)
    /\ unwrap(unwrap(out).material.pattern).kind = "checker"
    /\ ~unwrap(out).in_shadow
    /\ unwrap(out).point = Tuple(1)
    /\ unwrap(out).light.position = Tuple(4)
    /\ unwrap(out).normal = Tuple(1)
    /\ unwrap(out).eye = Tuple(1)
    /\ unwrap(out).got = Ok(37)

(***************************************************************************)
(* ColorPattern::pattern_at_object on the five variants (SpecPattern).     *)
(***************************************************************************)
\* identity, scaling(2, 2, 2) and translation(0.5, 1, 1.5)
PatternTransforms ==
    {Matrix(1, 1, <<0, 0, 0>>), Matrix(2, 1, <<0, 0, 0>>), Matrix(1, 1, <<2, 4, 6>>)}

Patterns ==
    {ColorPattern(kind, 4, 8, m) :
        kind \in {"test", "stripe", "gradient", "ring", "checker"}, m \in PatternTransforms}

\* spheres: as they are, scaled by 2, and moved by 1 along the axis
PatternShapes == {Sphere(Transform(ty, scale, FALSE), Matte) : ty \in {0, 1}, scale \in {1, 2}}

\* (2.5, 3, 3.5), (2, 3, 4), (-1, 0, 1) and (0, 2, -2)
PatternPoints == {<<10, 12, 14>>, <<8, 12, 16>>, <<0 - 4, 0, 4>>, <<0, 8, 0 - 8>>}

InitPattern ==
    /\ world = World(<<>>, PointLight(Tuple(0 - 2)))
    /\ ray = NoRay
    /\ remaining = None
    /\ xs = <<>>
    /\ out = None
    /\ pc = "idle"
    /\ stack = <<>>
    /\ result = None

NextPattern ==
    \E pattern \in Patterns, shape \in PatternShapes, point \in PatternPoints :
        call_pattern_at_object(pattern, shape, point)

SpecPattern == InitPattern /\ [][NextPattern]_vars

\* m * p has no remainder in the model's division
exact(m, p) == \A k \in 1..3 : (m.num * p[k] + m.t[k]) % m.den = 0

\* the pattern-space point of a call: what the test pattern, whose color is
\* its point, gives under the same transforms
sampled_point(pattern, shape, point) ==
    pattern_at_object(ColorPattern("test", 0, 0, pattern.transform), shape, point).val

\* C20: pattern_at_object gives the pattern's value at the point q for which
\* shape.transform * (pattern.transform * q) is the world point (the shape's
\* inverse is applied first, the pattern's second), for each of the five
\* variants; a shape scaled by 2 and a test pattern translated by
\* (0.5, 1, 1.5) give (0.75, 0.5, 0.25) at (2.5, 3, 3.5).
C20_ObjectThenPattern ==
    pc = "pattern_at_object" =>
        LET pattern == unwrap(out).pattern
            point == unwrap(out).point
            shape == world.objects[1]
            to_object == unwrap(inverse(matrix_of(shape.transform)))
            to_pattern == unwrap(inverse(pattern.transform))
            q == sampled_point(pattern, shape, point)
        IN  /\ unwrap(out).got = Ok(pattern_at(pattern, q))
            /\ (exact(to_object, point) /\ exact(to_pattern, mul_point(to_object, point)))
                  => mul_point(matrix_of(shape.transform), mul_point(pattern.transform, q))
                        = point
            /\ (/\ pattern = ColorPattern("test", 4, 8, Matrix(1, 1, <<2, 4, 6>>))
                /\ shape.transform = Transform(0, 2, FALSE)
                /\ point = <<10, 12, 14>>) => unwrap(out).got = Ok(<<3, 2, 1>>)

\* C20's case: the shape scaled by 2, the test pattern translated by
\* (0.5, 1, 1.5), sampled at (2.5, 3, 3.5)
C20_Witness ==
    /\ pc = "pattern_at_object"
    /\ unwrap(out).pattern = ColorPattern("test", 4, 8, Matrix(1, 1, <<2, 4, 6>>))
    /\ unwrap(out).point = <<10, 12, 14>>
    /\ world.objects[1].transform = Transform(0, 2, FALSE)
    /\ unwrap(out).got = Ok(<<3, 2, 1>>)

(***************************************************************************)
(* Shapes in three dimensions.  Sphere, Cylinder and Cone::local_intersect *)
(* on rays that leave the axis: points and vectors are <<x, y, z>> in      *)
(* units of 1 / PatternUnit, and an f64 computed from them is the exact    *)
(* number (p + q * sqrt(d)) / den, so that roots of a quadratic with a     *)
(* discriminant that is not a square are compared exactly.  The            *)
(* coefficients a, b and c are kept multiplied by PatternUnit^2, which     *)
(* leaves the roots unchanged.                                             *)
(***************************************************************************)
Real(p, q, d, den) == [p |-> p, q |-> q, d |-> d, den |-> den]

\* a whole number as f64
Rat(n) == Real(n, 0, 0, 1)

\* the radicand two operands share
rad(a, b) == IF a.q # 0 THEN a.d ELSE b.d

\* f64 +, -, * and /
r_add(a, b) ==
    IF a.den = b.den THEN Real(a.p + b.p, a.q + b.q, rad(a, b), a.den)
    ELSE Real(a.p * b.den + b.p * a.den, a.q * b.den + b.q * a.den, rad(a, b), a.den * b.den)

r_neg(a) == Real(0 - a.p, 0 - a.q, a.d, a.den)

r_sub(a, b) == r_add(a, r_neg(b))

r_mul(a, b) == Real(a.p * b.p + a.q * b.q * rad(a, b), a.p * b.q + a.q * b.p, rad(a, b), a.den * b.den)

\* a / b for a b without a square root
r_div(a, b) == Real(a.p * b.den, a.q * b.den, a.d, a.den * b.p)

\* f64::sqrt of a whole number
r_sqrt(n) == Real(0, 1, n, 1)

\* the sign of p + q * sqrt(d)
surd_sign(p, q, d) ==
    IF q = 0 \/ d = 0 THEN sign(p)
    ELSE IF p = 0 \/ sign(p) = sign(q) THEN sign(q)
    ELSE IF p * p > q * q * d THEN sign(p)
    ELSE IF p * p < q * q * d THEN sign(q)
    ELSE 0

r_sign(a) == surd_sign(a.p, a.q, a.d) * sign(a.den)

\* f64 <, <=, ==
r_lt(a, b) == r_sign(r_sub(a, b)) < 0

r_le(a, b) == r_sign(r_sub(a, b)) <= 0

r_eq(a, b) == r_sign(r_sub(a, b)) = 0

\* f64::powi(2)
powi2(a) == r_mul(a, a)

\* a ray of three dimensions: origin and direction are <<x, y, z>>
Ray3(origin, direction) == [origin |-> origin, direction |-> direction]

\* origin.k + t * direction.k, as in check_cap and the y0 / y1 of the sides
along(r, k, t) == r_add(Rat(r.origin[k]), r_mul(t, Rat(r.direction[k])))

\* Ray::position
position3(r, t) == [k \in 1..3 |-> along(r, k, t)]

\* (-b - sqrt(discriminant)) / (2 a) and (-b + sqrt(discriminant)) / (2 a)
root_minus(a, b, discriminant) == r_div(r_sub(Rat(0 - b), r_sqrt(discriminant)), Rat(2 * a))

root_plus(a, b, discriminant) == r_div(r_add(Rat(0 - b), r_sqrt(discriminant)), Rat(2 * a))

\* if t0 > t1 { (t0, t1) = (t1, t0) }
lower(t0, t1) == IF r_lt(t1, t0) THEN t1 ELSE t0

upper(t0, t1) == IF r_lt(t1, t0) THEN t0 ELSE t1

(***************************************************************************)
(* Cone::local_intersect.  minimum and maximum are in units of             *)
(* 1 / PatternUnit.                                                        *)
(***************************************************************************)
cone_a(r) == r.direction[1] * r.direction[1] - r.direction[2] * r.direction[2]
                + r.direction[3] * r.direction[3]

cone_b(r) == 2 * r.origin[1] * r.direction[1] - 2 * r.origin[2] * r.direction[2]
                + 2 * r.origin[3] * r.direction[3]

cone_c(r) == r.origin[1] * r.origin[1] - r.origin[2] * r.origin[2] + r.origin[3] * r.origin[3]

cone_discriminant(r) == cone_b(r) * cone_b(r) - 4 * cone_a(r) * cone_c(r)

\* Cone::check_cap: (x.powi(2) + z.powi(2)) <= y.abs(), both sides in units
\* of 1 / PatternUnit^2
cone_check_cap(r, t, y) ==
    r_le(r_add(powi2(along(r, 1, t)), powi2(along(r, 3, t))), Rat(abs(y) * PatternUnit))

\* the push of a root whose y is between minimum and maximum
cone_side(self, shape, r, t) ==
    IF r_lt(Rat(shape.minimum), along(r, 2, t)) /\ r_lt(along(r, 2, t), Rat(shape.maximum))
    THEN <<Intersection(t, self)>> ELSE <<>>

\* the two roots, swapped into order, each pushed if it is in range
cone_sides_between(self, shape, r, t0, t1) ==
    cone_side(self, shape, r, lower(t0, t1)) \o cone_side(self, shape, r, upper(t0, t1))

\* -c / (2.0 * b), pushed as it is
cone_linear(self, shape, r) ==
    <<Intersection(r_div(Rat(0 - cone_c(r)), Rat(2 * cone_b(r))), self)>>

\* the side intersections: the branch on a, then on the discriminant or on b
cone_sides(self, shape, r) ==
    IF cone_a(r) # 0
    THEN (IF cone_discriminant(r) < 0 THEN <<>>
          ELSE cone_sides_between(self, shape, r,
                    root_minus(cone_a(r), cone_b(r), cone_discriminant(r)),
                    root_plus(cone_a(r), cone_b(r), cone_discriminant(r))))
    ELSE IF cone_b(r) # 0 THEN cone_linear(self, shape, r)
    ELSE <<>>

\* the t of the plane y = y
cap_t(r, y) == r_div(Rat(y - r.origin[2]), Rat(r.direction[2]))

cone_cap(self, r, y) ==
    IF cone_check_cap(r, cap_t(r, y), y) THEN <<Intersection(cap_t(r, y), self)>> ELSE <<>>

\* the cap intersections: minimum first, then maximum
cone_caps(self, shape, r) ==
    IF shape.closed /\ r.direction[2] # 0
    THEN cone_cap(self, r, shape.minimum) \o cone_cap(self, r, shape.maximum)
    ELSE <<>>

\* Cone::local_intersect; a negative discriminant returns before the caps
local_intersect_cone(self, shape, r) ==
    IF cone_a(r) # 0 /\ cone_discriminant(r) < 0 THEN Ok(<<>>)
    ELSE Ok(cone_sides(self, shape, r) \o cone_caps(self, shape, r))

(***************************************************************************)
(* Cone::local_intersect on truncated cones (SpecCone).  out records the   *)
(* ray and what the call gave; the cone is the world's only object.        *)
(***************************************************************************)
\* Cone::new(origin, maximum, minimum, closed) with (0.5, -0.5), (1, -1),
\* (2, -2) and (2, 1), closed and open, and the open cone of (10, -10)
Cones ==
    {Cone(Transform(0, 1, FALSE), Matte, b[1], b[2], closed) :
        b \in {<<2, 0 - 2>>, <<4, 0 - 4>>, <<8, 0 - 8>>, <<8, 4>>}, closed \in BOOLEAN}
    \cup {Cone(Transform(0, 1, FALSE), Matte, 40, 0 - 40, FALSE)}

\* origins and directions with coordinates in quarters
Origins3 == {<<x, y, z>> : x \in {0, 2, 6}, y \in {0 - 4, 0, 6}, z \in {0 - 20, 0 - 4, 0, 2}}

Directions3 == {<<x, y, z>> : x \in {0 - 2, 0, 4}, y \in {0 - 4, 0, 4}, z \in {0, 4}}

Rays3 == {Ray3(o, d) : o \in Origins3, d \in Directions3}

InitCone ==
    /\ world = World(<<>>, PointLight(Tuple(0 - 2)))
    /\ ray = NoRay
    /\ remaining = None
    /\ xs = <<>>
    /\ out = None
    /\ pc = "idle"
    /\ stack = <<>>
    /\ result = None

\* cone.local_intersect(r)
call_local_intersect_cone(shape, r) ==
    /\ pc = "idle"
    /\ world' = World(<<shape>>, world.light)
    /\ out' = Some([ray |-> r, got |-> local_intersect_cone(1, shape, r)])
    /\ pc' = "local_intersect"
    /\ UNCHANGED <<ray, remaining, xs, stack, result>>

NextCone == \E shape \in Cones, r \in Rays3 : call_local_intersect_cone(shape, r)

SpecCone == InitCone /\ [][NextCone]_vars

\* the intersections reported after the side intersections: those of the caps
caps_reported(l, sides) == SubSeq(l, Len(sides) + 1, Len(l))

\* an intersection at the plane y = y is among the caps reported
cap_reported_at(l, sides, r, y) ==
    \E k \in 1..Len(caps_reported(l, sides)) : r_eq(caps_reported(l, sides)[k].t, cap_t(r, y))

\* the ray's point on the plane y = y is in the disk x^2 + z^2 <= y^2
in_cap_disk(r, y) ==
    r_le(r_add(powi2(along(r, 1, cap_t(r, y))), powi2(along(r, 3, cap_t(r, y)))), Rat(y * y))

\* C21: a closed cone reports a cap intersection at the plane y = minimum
\* (y = maximum) exactly when the ray is not parallel to the plane and the
\* ray's point on the plane has x^2 + z^2 <= y^2.
C21_CapIsDiskOfRadiusY ==
    (pc = "local_intersect" /\ world.objects[1].closed) =>
        LET shape == world.objects[1]
            r == unwrap(out).ray
            sides == cone_sides(1, shape, r)
        IN  \A y \in {shape.minimum, shape.maximum} :
                cap_reported_at(unwrap(out).got.val, sides, r, y)
                    <=> (r.direction[2] # 0 /\ in_cap_disk(r, y))

\* the intersections reported before those of the caps: the side surface's
sides_reported(l, caps) == SubSeq(l, 1, Len(l) - Len(caps))

\* the point is on the cone x^2 - y^2 + z^2 = 0
on_cone(p) == r_eq(r_add(powi2(p[1]), powi2(p[3])), powi2(p[2]))

\* C22: for a ray parallel to one nappe (a = 0, b # 0) Cone::local_intersect
\* reports exactly one side intersection, at the root of b * t + c = 0, so
\* that the ray's point at that t is on the cone; with a = 0 and b = 0 it
\* reports no side intersection.
C22_LinearRootIsOnCone ==
    (pc = "local_intersect" /\ cone_a(unwrap(out).ray) = 0) =>
        LET r == unwrap(out).ray
            on_side == sides_reported(unwrap(out).got.val, cone_caps(1, world.objects[1], r))
        IN  IF cone_b(r) = 0 THEN on_side = <<>>
            ELSE /\ Len(on_side) = 1
                 /\ r_eq(r_add(r_mul(Rat(cone_b(r)), on_side[1].t), Rat(cone_c(r))), Rat(0))
                 /\ on_cone(position3(r, on_side[1].t))

\* C27: every intersection a truncated cone reports on its side surface has
\* the ray's y strictly between minimum and maximum, for the two roots of
\* the quadratic and for the single root of the linear fallback (a = 0).
C27_ConeSidesInRange ==
    pc = "local_intersect" =>
        LET shape == world.objects[1]
            r == unwrap(out).ray
            on_side == sides_reported(unwrap(out).got.val, cone_caps(1, shape, r))
        IN  \A k \in 1..Len(on_side) :
                /\ r_lt(Rat(shape.minimum), along(r, 2, on_side[k].t))
                /\ r_lt(along(r, 2, on_side[k].t), Rat(shape.maximum))

(***************************************************************************)
(* Cylinder::local_intersect.  minimum and maximum are in units of         *)
(* 1 / PatternUnit.                                                        *)
(***************************************************************************)
Cylinder(transform, material, maximum, minimum, closed) ==
    [kind |-> "cylinder", origin |-> 0, transform |-> transform, material |-> material,
     minimum |-> minimum, maximum |-> maximum, closed |-> closed]

cylinder_a(r) == r.direction[1] * r.direction[1] + r.direction[3] * r.direction[3]

cylinder_b(r) == 2 * r.origin[1] * r.direction[1] + 2 * r.origin[3] * r.direction[3]

cylinder_c(r) == r.origin[1] * r.origin[1] + r.origin[3] * r.origin[3] - PatternUnit * PatternUnit

cylinder_discriminant(r) == cylinder_b(r) * cylinder_b(r) - 4 * cylinder_a(r) * cylinder_c(r)

\* Cylinder::check_cap: (x.powi(2) + z.powi(2)) <= 1.0
cylinder_check_cap(r, t) ==
    r_le(r_add(powi2(along(r, 1, t)), powi2(along(r, 3, t))), Rat(PatternUnit * PatternUnit))

\* the push of a root whose y is at or between minimum and maximum
cylinder_side_inclusive(self, shape, r, t) ==
    IF r_le(Rat(shape.minimum), along(r, 2, t)) /\ r_le(along(r, 2, t), Rat(shape.maximum))
    THEN <<Intersection(t, self)>> ELSE <<>>

\* the push of a root whose y is between minimum and maximum
cylinder_side(self, shape, r, t) ==
    IF r_lt(Rat(shape.minimum), along(r, 2, t)) /\ r_lt(along(r, 2, t), Rat(shape.maximum))
    THEN <<Intersection(t, self)>> ELSE <<>>

\* the two roots, swapped into order, each pushed if it is in range
cylinder_sides_between(self, shape, r, t0, t1) ==
    cylinder_side(self, shape, r, lower(t0, t1)) \o cylinder_side(self, shape, r, upper(t0, t1))

\* the side intersections: none for a ray along the axis
cylinder_sides(self, shape, r) ==
    IF cylinder_a(r) = 0 \/ cylinder_discriminant(r) < 0 THEN <<>>
    ELSE cylinder_sides_between(self, shape, r,
              root_minus(cylinder_a(r), cylinder_b(r), cylinder_discriminant(r)),
              root_plus(cylinder_a(r), cylinder_b(r), cylinder_discriminant(r)))

cylinder_cap(self, r, y) ==
    IF cylinder_check_cap(r, cap_t(r, y)) THEN <<Intersection(cap_t(r, y), self)>> ELSE <<>>

\* the cap intersections: minimum first, then maximum
cylinder_caps(self, shape, r) ==
    IF shape.closed /\ r.direction[2] # 0
    THEN cylinder_cap(self, r, shape.minimum) \o cylinder_cap(self, r, shape.maximum)
    ELSE <<>>

\* Cylinder::local_intersect; a negative discriminant returns before the caps
local_intersect_cylinder(self, shape, r) ==
    IF cylinder_a(r) # 0 /\ cylinder_discriminant(r) < 0 THEN Ok(<<>>)
    ELSE Ok(cylinder_sides(self, shape, r) \o cylinder_caps(self, shape, r))

(***************************************************************************)
(* Cylinder::local_intersect on truncated cylinders (SpecCylinder).        *)
(***************************************************************************)
\* Cylinder::new(origin, maximum, minimum, closed) with (2, 1) and (1, -1)
Cylinders ==
    {Cylinder(Transform(0, 1, FALSE), Matte, b[1], b[2], closed) :
        b \in {<<8, 4>>, <<4, 0 - 4>>}, closed \in BOOLEAN}

CylinderRays ==
    {Ray3(<<ox, oy, oz>>, <<dx, dy, dz>>) :
        ox \in {0, 2, 6}, oy \in {0 - 4, 0, 4, 6, 8, 12, 16}, oz \in {0 - 20, 0 - 8, 0},
        dx \in {0 - 4, 0, 4}, dy \in {0 - 4, 0, 4}, dz \in {0, 4, 8}}

\* cylinder.local_intersect(r)
call_local_intersect_cylinder(shape, r) ==
    /\ pc = "idle"
    /\ world' = World(<<shape>>, world.light)
    /\ out' = Some([ray |-> r, got |-> local_intersect_cylinder(1, shape, r)])
    /\ pc' = "local_intersect"
    /\ UNCHANGED <<ray, remaining, xs, stack, result>>

NextCylinder == \E shape \in Cylinders, r \in CylinderRays : call_local_intersect_cylinder(shape, r)

SpecCylinder == InitCone /\ [][NextCylinder]_vars

\* t is one of the two roots of the side surface's quadratic
is_side_root(r, t) ==
    /\ cylinder_a(r) # 0
    /\ cylinder_discriminant(r) >= 0
    /\ \/ r_eq(t, root_minus(cylinder_a(r), cylinder_b(r), cylinder_discriminant(r)))
       \/ r_eq(t, root_plus(cylinder_a(r), cylinder_b(r), cylinder_discriminant(r)))

\* the ray's point on the plane y = y is in the disk x^2 + z^2 <= 1
in_unit_disk(r, y) ==
    r_le(r_add(powi2(along(r, 1, cap_t(r, y))), powi2(along(r, 3, cap_t(r, y)))),
         Rat(PatternUnit * PatternUnit))

\* C23: every side intersection a truncated cylinder reports is a root of
\* the quadratic at which the ray's y is strictly between minimum and
\* maximum; cap intersections are reported only by a closed cylinder and a
\* ray that is not parallel to the caps, and then exactly for the cap planes
\* where the ray's point has x^2 + z^2 <= 1.
C23_CylinderRangeAndCaps ==
    pc = "local_intersect" =>
        LET shape == world.objects[1]
            r == unwrap(out).ray
            got == unwrap(out).got.val
            on_side == sides_reported(got, cylinder_caps(1, shape, r))
            on_caps == caps_reported(got, cylinder_sides(1, shape, r))
        IN  /\ unwrap(out).got.ok
            /\ \A k \in 1..Len(on_side) :
                  /\ is_side_root(r, on_side[k].t)
                  /\ r_lt(Rat(shape.minimum), along(r, 2, on_side[k].t))
                  /\ r_lt(along(r, 2, on_side[k].t), Rat(shape.maximum))
            /\ (~shape.closed \/ r.direction[2] = 0) => on_caps = <<>>
            /\ (shape.closed /\ r.direction[2] # 0) =>
                  /\ \A y \in {shape.minimum, shape.maximum} :
                        cap_reported_at(got, cylinder_sides(1, shape, r), r, y)
                            <=> in_unit_disk(r, y)
                  /\ \A k \in 1..Len(on_caps) :
                        \E y \in {shape.minimum, shape.maximum} :
                            r_eq(on_caps[k].t, cap_t(r, y))

\* C23's case: the closed cylinder of (2, 1) and the ray from (0, 4, -2)
\* along (0, -1, 1): the roots are at y = 3 and at y = 1 = minimum, neither
\* is reported, and both caps are (the lower one on its rim)
C23_Witness ==
    /\ pc = "local_intersect"
    /\ world.objects[1] = Cylinder(Transform(0, 1, FALSE), Matte, 8, 4, TRUE)
    /\ unwrap(out).ray = Ray3(<<0, 16, 0 - 8>>, <<0, 0 - 4, 4>>)
    /\ r_eq(along(unwrap(out).ray, 2,
                  root_plus(cylinder_a(unwrap(out).ray), cylinder_b(unwrap(out).ray),
                            cylinder_discriminant(unwrap(out).ray))), Rat(4))
    /\ Len(unwrap(out).got.val) = 2
    /\ r_eq(unwrap(out).got.val[1].t, Rat(3))
    /\ r_eq(unwrap(out).got.val[2].t, Rat(2))

(***************************************************************************)
(* Sphere::local_intersect in three dimensions, for the unit sphere at     *)
(* the origin.                                                             *)
(***************************************************************************)
dot3(a, b) == a[1] * b[1] + a[2] * b[2] + a[3] * b[3]

\* ray.origin - self.shape.origin
obj_to_ray(shape, r) == [k \in 1..3 |-> r.origin[k] - shape.origin]

sphere_a(r) == dot3(r.direction, r.direction)

sphere_b(shape, r) == 2 * dot3(r.direction, obj_to_ray(shape, r))

sphere_c(shape, r) == dot3(obj_to_ray(shape, r), obj_to_ray(shape, r)) - PatternUnit * PatternUnit

sphere_discriminant(shape, r) ==
    sphere_b(shape, r) * sphere_b(shape, r) - 4 * sphere_a(r) * sphere_c(shape, r)

\* the two pushes, t1 then t2
sphere_roots(self, a, b, discriminant) ==
    <<Intersection(root_minus(a, b, discriminant), self),
      Intersection(root_plus(a, b, discriminant), self)>>

\* Sphere::local_intersect with `discriminant > 0.0`
local_intersect_sphere_no_tangent(self, shape, r) ==
    IF sphere_a(r) = 0 THEN Err("Direction is zero or close to zero")
    ELSE IF sphere_discriminant(shape, r) > 0
    THEN Ok(sphere_roots(self, sphere_a(r), sphere_b(shape, r), sphere_discriminant(shape, r)))
    ELSE Ok(<<>>)

\* Sphere::local_intersect
local_intersect_sphere(self, shape, r) ==
    IF sphere_a(r) = 0 THEN Err("Direction is zero or close to zero")
    ELSE IF sphere_discriminant(shape, r) >= 0
    THEN Ok(sphere_roots(self, sphere_a(r), sphere_b(shape, r), sphere_discriminant(shape, r)))
    ELSE Ok(<<>>)

(***************************************************************************)
(* Sphere::local_intersect on the unit sphere (SpecSphere).  ray is the    *)
(* caller's ray, handed to the call by value.                              *)
(***************************************************************************)
SphereRays ==
    {Ray3(<<ox, oy, oz>>, <<dx, dy, dz>>) :
        ox \in {0, 2, 4}, oy \in {0, 4, 8}, oz \in {0 - 20, 0 - 4, 0, 20},
        dx \in {0, 4}, dy \in {0 - 4, 0, 4}, dz \in {0, 4}}

InitSphere ==
    /\ world = World(<<Sphere(Transform(0, 1, FALSE), Matte)>>, PointLight(Tuple(0 - 2)))
    /\ ray \in SphereRays
    /\ remaining = None
    /\ xs = <<>>
    /\ out = None
    /\ pc = "idle"
    /\ stack = <<>>
    /\ result = None

\* sphere.local_intersect(ray)
call_local_intersect_sphere ==
    /\ pc = "idle"
    /\ out' = Some([got |-> local_intersect_sphere(1, world.objects[1], ray)])
    /\ pc' = "local_intersect"
    /\ UNCHANGED <<world, ray, remaining, xs, stack, result>>

NextSphere == call_local_intersect_sphere

SpecSphere == InitSphere /\ [][NextSphere]_vars

\* what the call gave is what the discriminant of the caller's ray decides:
\* nothing, or the two roots in order (their sum is -b / a, their product
\* c / a), both on the sphere called
two_roots_in_order ==
    LET shape == world.objects[1]
        got == unwrap(out).got
    IN  /\ got.ok <=> ray.direction # <<0, 0, 0>>
        /\ (got.ok /\ sphere_discriminant(shape, ray) < 0) => got.val = <<>>
        /\ (got.ok /\ sphere_discriminant(shape, ray) >= 0) =>
              /\ Len(got.val) = 2
              /\ r_le(got.val[1].t, got.val[2].t)
              /\ sphere_discriminant(shape, ray) = 0 <=> r_eq(got.val[1].t, got.val[2].t)
              /\ r_eq(r_add(got.val[1].t, got.val[2].t),
                      Real(0 - sphere_b(shape, ray), 0, 0, sphere_a(ray)))
              /\ r_eq(r_mul(got.val[1].t, got.val[2].t),
                      Real(sphere_c(shape, ray), 0, 0, sphere_a(ray)))
              /\ got.val[1].object = 1 /\ got.val[2].object = 1
        /\ ray = Ray3(<<0, 0, 0 - 20>>, <<0, 0, 4>>) =>
              r_eq(got.val[1].t, Rat(4)) /\ r_eq(got.val[2].t, Rat(6))

\* C24: Sphere::local_intersect, where it computes the discriminant (the
\* direction is not zero), returns no intersection when b^2 - 4ac < 0 and
\* otherwise exactly the two roots t1 <= t2, equal for a tangent ray, both
\* referencing the sphere; the ray from (0, 0, -5) along (0, 0, 1) gives 4
\* and 6; the caller's ray is as it was.
C24_SphereTwoRoots ==
    [][pc' = "local_intersect" => (ray' = ray /\ two_roots_in_order')]_vars

\* C24's case: the tangent ray from (0, 1, -5) along (0, 0, 1) gave 5 twice
C24_Witness ==
    /\ pc = "local_intersect"
    /\ ray = Ray3(<<0, 4, 0 - 20>>, <<0, 0, 4>>)
    /\ unwrap(out).got.ok
    /\ Len(unwrap(out).got.val) = 2
    /\ r_eq(unwrap(out).got.val[1].t, Rat(5))
    /\ r_eq(unwrap(out).got.val[2].t, Rat(5))

(***************************************************************************)
(* refracted_color on materials of transparency 0, 1 and 2                 *)
(* (SpecRefracted): the color_at recursion on worlds whose materials do    *)
(* not reflect.                                                            *)
(***************************************************************************)
RefractedMaterials == {Material(0, tr, ri) : tr \in {0, 1, 2}, ri \in {2, 3}}

RefractedScenes ==
    {FacingPlanes(m1, m2) : m1 \in RefractedMaterials, m2 \in RefractedMaterials}
    \cup {SphereAndPlane(m1, m2) : m1 \in RefractedMaterials, m2 \in RefractedMaterials}

InitRefracted ==
    /\ world \in RefractedScenes
    /\ ray = NoRay
    /\ remaining = None
    /\ xs = <<>>
    /\ out = None
    /\ pc = "idle"
    /\ stack = <<>>
    /\ result = None

NextRefracted ==
    \/ \E r \in PrimaryRays, budget \in Budgets : call_color_at(r, budget)
    \/ color_at
    \/ reflected_color
    \/ refracted_color
    \/ shade_hit

SpecRefracted == InitRefracted /\ [][NextRefracted]_vars

\* the color the color_at at the top of the stack returns, when it returns
returned_color ==
    IF top.pc = "shade_hit"
    THEN shade_hit_color(top_material, unwrap(top.comps), top.surface, top.reflected,
                         top.refracted)
    ELSE black

\* the frame that called the color_at at the top of the stack
caller == stack[Len(stack) - 1]

\* C25: refracted_color returns black and calls no color_at whenever
\* sin2_t > 1, for every budget and transparency; with sin2_t <= 1, a budget
\* greater than 0 and a transparency greater than 0 it calls color_at once,
\* with the budget less 1, and returns that color times the transparency.
C25_TotalInternalReflection ==
    [][/\ (pc = "running" /\ top.pc = "refracted_color") =>
             /\ total_internal_reflection(unwrap(top.comps)) =>
                   /\ Len(stack') = Len(stack)
                   /\ pc' = "running"
                   /\ top'.refracted = black
                   /\ top'.pc = "shade_hit"
             /\ (/\ ~total_internal_reflection(unwrap(top.comps))
                 /\ frame_budget(Len(stack)) > 0
                 /\ top_material.transparency > 0) =>
                   /\ Len(stack') = Len(stack) + 1
                   /\ SubSeq(stack', 1, Len(stack) - 1) = callers
                   /\ stack'[Len(stack)] = [top EXCEPT !.pc = "refracted_color_call"]
                   /\ top'.pc = "color_at"
                   /\ top'.remaining = Some(frame_budget(Len(stack)) - 1)
       /\ (/\ pc = "running"
           /\ Len(stack) >= 2
           /\ caller.pc = "refracted_color_call"
           /\ Len(stack') = Len(stack) - 1) =>
             /\ top'.refracted = returned_color * material_of(world, unwrap(caller.comps)).transparency
             /\ top'.pc = "shade_hit"]_vars

\* C25's case: a refracted_color called by a nested color_at, with budget
\* left and a transparent material, has returned black on a total internal
\* reflection
C25_Witness ==
    /\ pc = "running"
    /\ Len(stack) >= 2
    /\ top.pc = "shade_hit"
    /\ top_material.transparency > 0
    /\ frame_budget(Len(stack)) > 0
    /\ total_internal_reflection(unwrap(top.comps))
    /\ top.refracted = black

(***************************************************************************)
(* over_point and under_point, checked on the color_at recursion (Spec).   *)
(***************************************************************************)
\* comps has its over_point and under_point on the two sides of its point,
\* along the normal that faces the eye
offset_along_normal(comps) ==
    /\ comps.normal = IF comps.inside
                      THEN neg(normal_at(world.objects[comps.object], comps.point))
                      ELSE normal_at(world.objects[comps.object], comps.point)
    /\ dot_ge_zero(comps.normal, comps.eye)
    /\ comps.over_point = add(comps.point, mul(comps.normal, EPSILON_OFFSET))
    /\ comps.under_point = sub(comps.point, mul(comps.normal, EPSILON_OFFSET))
    /\ comps.over_point # comps.point
    /\ comps.under_point # comps.point

\* C26: prepare_computations sets over_point = point + normal * eps and
\* under_point = point - normal * eps with the normal after the inside flip;
\* shade_hit tests the shadow and computes the lighting at over_point,
\* reflected_color casts its ray from over_point and refracted_color from
\* under_point, so no secondary ray starts on the hit point.
C26_SecondaryRaysAreOffset ==
    [][/\ (pc = "running" /\ top.pc = "color_at" /\ pc' = "running"
              /\ Len(stack') = Len(stack) /\ top'.pc = "reflected_color") =>
             /\ offset_along_normal(unwrap(top'.comps))
             /\ Ok(top'.surface) =
                   lighting(material_of(world, unwrap(top'.comps)),
                            world.objects[unwrap(top'.comps).object], world.light,
                            unwrap(top'.comps).over_point, unwrap(top'.comps).eye,
                            unwrap(top'.comps).normal,
                            is_shadowed(world, unwrap(top'.comps).over_point).val)
       /\ (pc = "running" /\ top.pc = "reflected_color" /\ Len(stack') = Len(stack) + 1) =>
             /\ top'.ray.origin = unwrap(top.comps).over_point
             /\ top'.ray.origin # unwrap(top.comps).point
       /\ (pc = "running" /\ top.pc = "refracted_color" /\ Len(stack') = Len(stack) + 1) =>
             /\ top'.ray.origin = unwrap(top.comps).under_point
             /\ top'.ray.origin # unwrap(top.comps).point]_vars

\* C26's case: the color_at of a refraction ray, cast from the under_point
\* of a hit whose reflection ray was cast before it
C26_Witness ==
    /\ pc = "running"
    /\ Len(stack) >= 2
    /\ top.pc = "color_at"
    /\ caller.pc = "refracted_color_call"
    /\ material_of(world, unwrap(caller.comps)).reflective > 0
    /\ top.ray.origin = unwrap(caller.comps).under_point
    /\ top.ray.origin # unwrap(caller.comps).point
    /\ unwrap(caller.comps).inside

(***************************************************************************)
(* The position at which the walk of prepare_computations stops, checked   *)
(* on prepare_computations on its own (SpecComps).                         *)
(***************************************************************************)
\* C28: prepare_computations for the element at position k takes n1 and n2
\* from the walk over the elements up to position k: the walk does not stop
\* at an earlier element that is equal in value to the queried one, and n1
\* and n2 are those of the container before and after position k.
C28_WalkStopsAtPosition ==
    (pc = "prepare_computations" /\ unwrap(out).listed)
        => LET k == unwrap(out).k
               comps == unwrap(out).comps
           IN  /\ stop_of(k) = k
               /\ comps.n1 = top_index(world, stack_by_value(xs, k - 1))
               /\ comps.n2 = top_index(world, stack_by_value(xs, k))

(***************************************************************************)
(* Canvas::new, write_pixel and pixel_at (SpecCanvas).  out holds the      *)
(* canvas, the last call of write_pixel and the list of the writes that    *)
(* returned.                                                               *)
(***************************************************************************)
MaxWrites == 3

CanvasColors == {1, 2}

InitCanvas ==
    /\ world = World(<<>>, PointLight(Tuple(0 - 2)))
    /\ ray = NoRay
    /\ remaining = None
    /\ xs = <<>>
    /\ out = None
    /\ pc = "idle"
    /\ stack = <<>>
    /\ result = None

\* Canvas::new(width, height)
call_new(width, height) ==
    /\ pc = "idle"
    /\ out' = Some([canvas |-> Canvas(width, height), call |-> <<>>, written |-> <<>>])
    /\ pc' = "canvas"
    /\ UNCHANGED <<world, ray, remaining, xs, stack, result>>

\* canvas.write_pixel(x, y, color), as far as it got
written_pixel(l, x, y, color, got) ==
    IF got.panic
    THEN out' = Some([l EXCEPT !.call = <<x, y, color>>]) /\ pc' = "panic"
    ELSE /\ out' = Some([canvas |-> got.val, call |-> <<x, y, color>>,
                         written |-> Append(l.written, <<x, y, color>>)])
         /\ UNCHANGED pc

call_write_pixel(x, y, color) ==
    /\ pc = "canvas"
    /\ Len(unwrap(out).written) < MaxWrites
    /\ written_pixel(unwrap(out), x, y, color, write_pixel(unwrap(out).canvas, x, y, color))
    /\ UNCHANGED <<world, ray, remaining, xs, stack, result>>

NextCanvas ==
    \/ \E width \in 0..(MaxSize - 1), height \in 0..(MaxSize - 1) : call_new(width, height)
    \/ \E x \in 0..(MaxSize - 1), y \in 0..(MaxSize - 1), color \in CanvasColors :
            call_write_pixel(x, y, color)

SpecCanvas == InitCanvas /\ [][NextCanvas]_vars

\* the color the pixel (x, y) should hold: that of the last write at (x, y),
\* black if there was none
last_written(l, x, y) ==
    LET at == {k \in 1..Len(l.written) : l.written[k][1] = x /\ l.written[k][2] = y}
    IN  IF at = {} THEN black
        ELSE l.written[CHOOSE k \in at : \A j \in at : j <= k][3]

\* the canvas holds width * height pixels, each black or as last written
holds_last_written(l) ==
    /\ Len(l.canvas.pixels) = l.canvas.width * l.canvas.height
    /\ \A x \in 0..(l.canvas.width - 1), y \in 0..(l.canvas.height - 1) :
          pixel_at(l.canvas, x, y) = last_written(l, x, y)

\* C29: a new canvas is black; write_pixel(x, y, c) with x < width and
\* y < height makes pixel_at(x, y) give c and leaves every other pixel, the
\* width and the height as they were; with x >= width or y >= height it
\* fails its assertion and changes no pixel; so the canvas always holds
\* exactly width * height pixels, each black or the last color written at
\* its coordinates.
C29_WritePixelFrame ==
    [][/\ holds_last_written(unwrap(out'))
       /\ pc = "idle" =>
             \A k \in 1..Len(unwrap(out').canvas.pixels) : unwrap(out').canvas.pixels[k] = black
       /\ pc = "canvas" =>
             LET before == unwrap(out).canvas
                 after == unwrap(out').canvas
                 x == unwrap(out').call[1]
                 y == unwrap(out').call[2]
             IN  /\ after.width = before.width /\ after.height = before.height
                 /\ IF x < before.width /\ y < before.height
                    THEN /\ pc' = "canvas"
                         /\ pixel_at(after, x, y) = unwrap(out').call[3]
                         /\ \A x2 \in 0..(before.width - 1), y2 \in 0..(before.height - 1) :
                               <<x2, y2>> # <<x, y>> =>
                                   pixel_at(after, x2, y2) = pixel_at(before, x2, y2)
                    ELSE pc' = "panic" /\ after = before]_vars

\* C29's case: on a canvas of 2 by 2 the pixel (1, 0) was written twice and
\* holds the second color, and a write at x = 2, y = 0 has failed, leaving
\* the pixel (0, 1), whose index x + 2 * y = 2 is, black
C29_Witness ==
    /\ pc = "panic"
    /\ unwrap(out).canvas.width = 2 /\ unwrap(out).canvas.height = 2
    /\ unwrap(out).written = <<<<1, 0, 1>>, <<1, 0, 2>>>>
    /\ unwrap(out).call = <<2, 0, 1>>
    /\ pixel_at(unwrap(out).canvas, 1, 0) = 2
    /\ pixel_at(unwrap(out).canvas, 0, 1) = black

(***************************************************************************)
(* Approximate equality of Tuple and Vector (SpecTuple).  A tuple is       *)
(* <<x, y, z, w>>; max_relative is the fraction <<numerator,               *)
(* denominator>>.  out records the operands and what the call gave.        *)
(***************************************************************************)
\* approx: f32::abs_diff_eq, |a - b| <= epsilon
f32_abs_diff_eq(a, b, epsilon) == abs(a - b) <= epsilon

\* approx: f32::relative_eq on finite values
f32_relative_eq(a, b, epsilon, max_relative) ==
    \/ a = b
    \/ abs(a - b) <= epsilon
    \/ abs(a - b) * max_relative[2]
          <= (IF abs(a) > abs(b) THEN abs(a) ELSE abs(b)) * max_relative[1]

\* impl AbsDiffEq for Tuple
tuple_abs_diff_eq(self, other, epsilon) ==
    /\ f32_abs_diff_eq(self[1], other[1], epsilon)
    /\ f32_abs_diff_eq(self[2], other[3], epsilon)
    /\ f32_abs_diff_eq(self[3], other[3], epsilon)
    /\ f32_abs_diff_eq(self[4], other[4], epsilon)

\* impl RelativeEq for Tuple
tuple_relative_eq(self, other, epsilon, max_relative) ==
    /\ f32_relative_eq(self[1], other[1], epsilon, max_relative)
    /\ f32_relative_eq(self[2], other[2], epsilon, max_relative)
    /\ f32_relative_eq(self[3], other[3], epsilon, max_relative)
    /\ f32_relative_eq(self[4], other[4], epsilon, max_relative)

\* Vector::new(x, y, z): the tuple of w = 0
Vector(x, y, z) == [tuple |-> <<x, y, z, 0>>]

\* impl AbsDiffEq for Vector and impl RelativeEq for Vector
vector_abs_diff_eq(self, other, epsilon) == tuple_abs_diff_eq(self.tuple, other.tuple, epsilon)

vector_relative_eq(self, other, epsilon, max_relative) ==
    tuple_relative_eq(self.tuple, other.tuple, epsilon, max_relative)

Tuples == {<<x, y, z, w>> : x \in {0, 1}, y \in {0, 1, 2}, z \in {0, 1, 2}, w \in {0, 1}}

Epsilons == {0, 1}

\* a.abs_diff_eq(&b, epsilon) on tuples
call_tuple_abs_diff_eq(a, b, epsilon) ==
    /\ pc = "idle"
    /\ out' = Some([a |-> a, b |-> b, epsilon |-> epsilon, max_relative |-> <<0, 1>>,
                    got |-> tuple_abs_diff_eq(a, b, epsilon)])
    /\ pc' = "abs_diff_eq"
    /\ UNCHANGED <<world, ray, remaining, xs, stack, result>>

\* a.relative_eq(&b, epsilon, max_relative) on tuples
call_tuple_relative_eq(a, b, epsilon, max_relative) ==
    /\ pc = "idle"
    /\ out' = Some([a |-> a, b |-> b, epsilon |-> epsilon, max_relative |-> max_relative,
                    got |-> tuple_relative_eq(a, b, epsilon, max_relative)])
    /\ pc' = "relative_eq"
    /\ UNCHANGED <<world, ray, remaining, xs, stack, result>>

\* a.abs_diff_eq(&b, epsilon) on vectors
call_vector_abs_diff_eq(a, b, epsilon) ==
    /\ pc = "idle"
    /\ out' = Some([a |-> a.tuple, b |-> b.tuple, epsilon |-> epsilon,
                    max_relative |-> <<0, 1>>,
                    got |-> vector_abs_diff_eq(a, b, epsilon)])
    /\ pc' = "vector_abs_diff_eq"
    /\ UNCHANGED <<world, ray, remaining, xs, stack, result>>

\* a.relative_eq(&b, epsilon, max_relative) on vectors
call_vector_relative_eq(a, b, epsilon, max_relative) ==
    /\ pc = "idle"
    /\ out' = Some([a |-> a.tuple, b |-> b.tuple, epsilon |-> epsilon,
                    max_relative |-> max_relative,
                    got |-> vector_relative_eq(a, b, epsilon, max_relative)])
    /\ pc' = "vector_relative_eq"
    /\ UNCHANGED <<world, ray, remaining, xs, stack, result>>

NextTuple ==
    \/ \E a \in Tuples, b \in Tuples, epsilon \in Epsilons : call_tuple_abs_diff_eq(a, b, epsilon)
    \/ \E a \in Tuples, b \in Tuples, epsilon \in Epsilons, max_relative \in {<<0, 1>>, <<1, 2>>} :
            call_tuple_relative_eq(a, b, epsilon, max_relative)
    \/ \E a \in Tuples, b \in Tuples, epsilon \in Epsilons :
            call_vector_abs_diff_eq(Vector(a[1], a[2], a[3]), Vector(b[1], b[2], b[3]), epsilon)
    \/ \E a \in Tuples, b \in Tuples, epsilon \in Epsilons, max_relative \in {<<0, 1>>, <<1, 2>>} :
            call_vector_relative_eq(Vector(a[1], a[2], a[3]), Vector(b[1], b[2], b[3]),
                                    epsilon, max_relative)

SpecTuple == InitCanvas /\ [][NextTuple]_vars

\* C30: abs_diff_eq(a, b, epsilon) on tuples, and on the vectors built on
\* them, is true exactly when each of the components x, y, z, w of a is
\* within epsilon of the same component of b, the pairing of components
\* that relative_eq has.
C30_AbsDiffEqPairsComponents ==
    LET l == unwrap(out)
    IN  /\ pc \in {"abs_diff_eq", "vector_abs_diff_eq"} =>
              (l.got <=> \A k \in 1..4 : f32_abs_diff_eq(l.a[k], l.b[k], l.epsilon))
        /\ pc \in {"relative_eq", "vector_relative_eq"} =>
              (l.got <=> \A k \in 1..4 :
                            f32_relative_eq(l.a[k], l.b[k], l.epsilon, l.max_relative))

====
